----------------------------- MODULE CoreProofs -----------------------------
(***************************************************************************)
(* Theorems about the components that CoreParts composes: the event queue   *)
(* first, then the safety monitor, the commands beside plain inputs, the    *)
(* gears, the bus of a sandboxed plugin, the audit trail, the audit log and *)
(* the loading of plugins.  Each component has an inductive invariant of    *)
(* its own (MonitorInv, CommandsInv, GearInv, BusInv, TrailInv, LogInv,     *)
(* LoadInv) and a theorem about it alone; the last section carries these to *)
(* the one specification of all.                                            *)
(***************************************************************************)
EXTENDS CoreParts, FiniteSetTheorems, SequenceTheorems, TLAPS


-----------------------------------------------------------------------------
\* Sequence facts: a one-element sequence, and a sequence of at most one.
LEMMA Singleton ==
  ASSUME NEW S, NEW e \in S
  PROVE  <<e>> \in Seq(S) /\ Len(<<e>>) = 1 /\ Head(<<e>>) = e
  OBVIOUS

LEMMA AtMostOne ==
  ASSUME NEW S, NEW s \in Seq(S), Len(s) <= 1, s # <<>>
  PROVE  s = <<Head(s)>> /\ Head(s) \in S
<1>0. Len(s) \in Nat \ {0}
  BY EmptySeq
<1>1. Len(s) = 1
  BY <1>0
<1>2. <<Head(s)>> \in Seq(S) /\ Head(s) \in S
  BY HeadTailProperties, Singleton
<1>3. Head(s) = s[1]
  BY <1>1
<1> QED BY <1>1, <1>2, <1>3, SeqEqual

\* A non-empty sequence is its head followed by its tail.
LEMMA HeadTail ==
  ASSUME NEW S, NEW s \in Seq(S), s # <<>>
  PROVE  <<Head(s)>> \o Tail(s) = s
<1> DEFINE h == <<Head(s)>>
           t == Tail(s)
<1>1. Head(s) \in S /\ t \in Seq(S) /\ Len(t) = Len(s) - 1
      /\ \A i \in 1..Len(t) : t[i] = s[i + 1]
  BY HeadTailProperties
<1>2. h \in Seq(S) /\ Len(h) = 1 /\ h[1] = Head(s) /\ Head(s) = s[1]
  BY <1>1, Singleton
<1>3. Len(s) \in Nat /\ Len(s) > 0
  BY EmptySeq, LenProperties
<1>4. /\ h \o t \in Seq(S)
      /\ Len(h \o t) = Len(h) + Len(t)
      /\ \A i \in 1..(Len(h) + Len(t)) :
            (h \o t)[i] = IF i <= Len(h) THEN h[i] ELSE t[i - Len(h)]
  BY <1>1, <1>2, ConcatProperties
<1>5. Len(h \o t) = Len(s)
  BY <1>1, <1>2, <1>3, <1>4
<1>6. ASSUME NEW i \in 1..Len(s) PROVE (h \o t)[i] = s[i]
  <2>1. CASE i = 1
    BY <1>1, <1>2, <1>3, <1>4, <2>1
  <2>2. CASE i # 1
    <3>1. i - 1 \in 1..Len(t) /\ i \in 1..(Len(h) + Len(t)) /\ ~(i <= Len(h))
      BY <1>1, <1>2, <1>3, <2>2
    <3>2. (h \o t)[i] = t[i - 1]
      BY <1>2, <1>4, <3>1
    <3> QED BY <1>1, <3>1, <3>2
  <2> QED BY <2>1, <2>2
<1> QED BY <1>4, <1>5, <1>6, SeqEqual

\* Moving the head of the second sequence to the end of the first.
LEMMA HandOver ==
  ASSUME NEW S, NEW r \in Seq(S), NEW s \in Seq(S), s # <<>>
  PROVE  (r \o <<Head(s)>>) \o Tail(s) = r \o s
<1>1. <<Head(s)>> \in Seq(S) /\ Tail(s) \in Seq(S)
  BY HeadTailProperties, Singleton
<1> QED BY <1>1, HeadTail, ConcatAssociative

-----------------------------------------------------------------------------
\* The instances count, and compare the places of a sequence, as the library does.
LEMMA SameCounts ==
    ASSUME NEW S
    PROVE  /\ Monitor!Cardinality(S) = Cardinality(S)
           /\ Commands!Cardinality(S) = Cardinality(S)
           /\ Bus!Cardinality(S) = Cardinality(S)
           /\ Audit!Cardinality(S) = Cardinality(S)
           /\ Loading!Cardinality(S) = Cardinality(S)
BY DEF Monitor!Cardinality, Commands!Cardinality, Bus!Cardinality,
       Audit!Cardinality, Loading!Cardinality, Cardinality,
       Monitor!IsFiniteSet, Commands!IsFiniteSet, Bus!IsFiniteSet, Audit!IsFiniteSet,
       Loading!IsFiniteSet, IsFiniteSet

-----------------------------------------------------------------------------
\* Every variable keeps its type, and at most one event is handed over.
THEOREM QueueTypeCorrect == Init /\ [][Next]_vars => []TypeOK
<1>1. Init => TypeOK
  <2>1. <<>> \in Seq(Events) /\ Len(<<>>) <= 1
    BY EmptySeq
  <2>2. 0 \in 0..MaxPushes
    BY MaxPushesAssumption
  <2> QED BY <2>1, <2>2 DEF Init, QueueInit, TypeOK
<1>2. TypeOK /\ [Next]_vars => TypeOK'
  <2> SUFFICES ASSUME TypeOK, [Next]_vars PROVE TypeOK'
    OBVIOUS
  <2> USE DEF TypeOK
  <2>1. ASSUME NEW e \in Events, Push(e) PROVE TypeOK'
    <3>1. /\ Append(buffer, e) \in Seq(Events)
          /\ Append(accepted, e) \in Seq(Events)
      BY AppendProperties
    <3>2. pushes' \in 0..MaxPushes
      BY <2>1, MaxPushesAssumption DEF Push
    <3>3. <<e>> \in Seq(Events) /\ Len(<<e>>) <= 1
      BY Singleton
    <3> QED BY <2>1, <3>1, <3>2, <3>3 DEF Push, Enqueue
  <2>2. CASE Pull
    <3>1. CASE buffer # <<>>
      <4>1. Head(buffer) \in Events /\ Tail(buffer) \in Seq(Events)
        BY <3>1, HeadTailProperties
      <4>2. <<Head(buffer)>> \in Seq(Events) /\ Len(<<Head(buffer)>>) <= 1
        BY <4>1, Singleton
      <4> QED BY <2>2, <3>1, <4>1, <4>2 DEF Pull, Dequeue
    <3>2. CASE buffer = <<>>
      BY <2>2, <3>2 DEF Pull, Dequeue
    <3> QED BY <3>1, <3>2
  <2>3. CASE Receive
    <3>1. Head(handed) \in Events
      BY <2>3, AtMostOne DEF Receive
    <3>2. Append(received, Head(handed)) \in Seq(Events)
      BY <3>1, AppendProperties
    <3> QED BY <2>3, <3>2, EmptySeq DEF Receive
  <2>4. CASE Clear
    <3>1. received \o handed \in Seq(Events)
      BY ConcatProperties
    <3> QED BY <2>4, <3>1, EmptySeq DEF Clear, Discard
  <2>5. CASE UNCHANGED vars
    BY <2>5 DEF vars
  <2> QED BY <2>1, <2>2, <2>3, <2>4, <2>5 DEF Next
<1> QED BY <1>1, <1>2, PTL

\* No lost wake-up: push and pull never both believe that the other will act
\* (queue.ts push/pull share `buffer` and `resolver`).
THEOREM QueueNoLostWakeup == Init /\ [][Next]_vars => []NoLostWakeup
<1>1. Init => NoLostWakeup
  BY DEF Init, QueueInit, NoLostWakeup
<1>2. TypeOK /\ NoLostWakeup /\ [Next]_vars => NoLostWakeup'
  <2> SUFFICES ASSUME TypeOK, NoLostWakeup, [Next]_vars PROVE NoLostWakeup'
    OBVIOUS
  <2> USE DEF NoLostWakeup, TypeOK
  <2>1. ASSUME NEW e \in Events, Push(e) PROVE NoLostWakeup'
    BY <2>1 DEF Push, Enqueue
  <2>2. CASE Pull
    BY <2>2 DEF Pull, Dequeue
  <2>3. CASE Receive
    BY <2>3 DEF Receive
  <2>4. CASE Clear
    BY <2>4 DEF Clear, Discard
  <2>5. CASE UNCHANGED vars
    BY <2>5 DEF vars
  <2> QED BY <2>1, <2>2, <2>3, <2>4, <2>5 DEF Next
<1> QED BY <1>1, <1>2, QueueTypeCorrect, PTL

\* First in, first out, exactly once: the queue neither loses, duplicates nor
\* reorders an event between push() and the consumer's await.
THEOREM QueueFifo == Init /\ [][Next]_vars => []Fifo
<1>1. Init => Fifo
  BY ConcatEmptySeq, EmptySeq DEF Init, QueueInit, Fifo
<1>2. TypeOK /\ NoLostWakeup /\ Fifo /\ [Next]_vars => Fifo'
  <2> SUFFICES ASSUME TypeOK, NoLostWakeup, Fifo, [Next]_vars PROVE Fifo'
    OBVIOUS
  <2> USE DEF Fifo, TypeOK, NoLostWakeup
  <2>0. received \o handed \in Seq(Events)
    BY ConcatProperties
  <2>1. ASSUME NEW e \in Events, Push(e) PROVE Fifo'
    <3>0. <<e>> \in Seq(Events)
      BY Singleton
    <3>1. accepted' = (received \o handed) \o (buffer \o <<e>>)
      <4>1. accepted' = accepted \o <<e>>
        BY <2>1, AppendIsConcat DEF Push
      <4> QED BY <4>1, <2>0, <3>0, ConcatAssociative
    <3>2. CASE resolver
      <4>1. handed = <<>> /\ buffer = <<>>
        BY <3>2
      <4>2. received' = received /\ handed' = <<e>> /\ buffer' = <<>>
        BY <2>1, <3>2, <4>1 DEF Push, Enqueue
      <4>3. accepted' = received \o <<e>>
        BY <3>0, <3>1, <4>1, ConcatEmptySeq
      <4>4. received' \o handed' \o buffer' = received \o <<e>>
        BY <3>0, <4>2, ConcatEmptySeq, ConcatProperties
      <4> QED BY <4>3, <4>4
    <3>3. CASE ~resolver
      <4>1. received' = received /\ handed' = handed /\ buffer' = buffer \o <<e>>
        BY <2>1, <3>3, AppendIsConcat DEF Push, Enqueue
      <4> QED BY <3>1, <4>1
    <3> QED BY <3>2, <3>3
  <2>2. CASE Pull
    <3>1. handed = <<>> /\ accepted' = accepted /\ received' = received
      BY <2>2 DEF Pull
    <3>2. accepted = received \o buffer
      BY <3>1, ConcatEmptySeq
    <3>3. CASE buffer # <<>>
      <4>1. handed' = <<Head(buffer)>> /\ buffer' = Tail(buffer)
        BY <2>2, <3>3 DEF Pull, Dequeue
      <4>2. (received \o <<Head(buffer)>>) \o Tail(buffer) = received \o buffer
        BY <3>3, HandOver
      <4> QED BY <3>1, <3>2, <4>1, <4>2
    <3>4. CASE buffer = <<>>
      BY <2>2, <3>1, <3>4 DEF Pull, Dequeue
    <3> QED BY <3>3, <3>4
  <2>3. CASE Receive
    <3>1. handed = <<Head(handed)>> /\ Head(handed) \in Events
      BY <2>3, AtMostOne DEF Receive
    <3>2. received' = received \o handed /\ handed' = <<>> /\ buffer' = buffer
          /\ accepted' = accepted
      BY <2>3, <3>1, AppendIsConcat DEF Receive
    <3>3. received' \o handed' = received \o handed
      BY <2>0, <3>2, ConcatEmptySeq
    <3> QED BY <3>2, <3>3
  <2>4. CASE Clear
    <3>1. received' \o handed' \o buffer' = received \o handed
      BY <2>0, <2>4, ConcatEmptySeq DEF Clear, Discard
    <3> QED BY <2>4, <3>1 DEF Clear
  <2>5. CASE UNCHANGED vars
    BY <2>5 DEF vars
  <2> QED BY <2>1, <2>2, <2>3, <2>4, <2>5 DEF Next
<1> QED BY <1>1, <1>2, QueueTypeCorrect, QueueNoLostWakeup, PTL

\* Only clear() leaves the consumer on a promise that nobody can resolve: push takes a
\* resolver away only to hand its event over, and pull leaves one behind or an event.
THEOREM QueueStrandsOnlyOnClear == Init /\ [][Next]_vars => OnlyClearStrands
<1>1. [Next]_vars => [Stranded' => Stranded \/ Clear]_vars
  <2> SUFFICES ASSUME Next, Stranded' PROVE Stranded \/ Clear
    OBVIOUS
  <2> USE DEF Stranded
  <2>1. ASSUME NEW e \in Events, Push(e) PROVE Stranded
    <3>1. <<e>> # <<>>
      OBVIOUS
    <3> QED BY <2>1, <3>1 DEF Push, Enqueue
  <2>2. CASE Pull
    <3>1. <<Head(buffer)>> # <<>>
      OBVIOUS
    <3> QED BY <2>2, <3>1 DEF Pull, Dequeue
  <2>3. CASE Receive
    BY <2>3 DEF Receive
  <2> QED BY <2>1, <2>2, <2>3 DEF Next
<1> QED BY <1>1, PTL DEF OnlyClearStrands


MonitorBounds ==
    /\ RepetitiveFailThreshold \in Nat \ {0} /\ FrustrationThreshold \in Nat \ {0}
    /\ ErrorWindowSize \in Nat \ {0} /\ RateNum \in Nat /\ RateDen \in Nat

Executions == [fp : Prints, isError : BOOLEAN]

\* The summaries, place by place in the log.
FailsFollow ==
    /\ monitor.fails <= Len(log)
    /\ \A i \in 1..Len(log) : i > Len(log) - monitor.fails => log[i].isError
    /\ monitor.fails < Len(log) => ~log[Len(log) - monitor.fails].isError

WindowFollows ==
    /\ Len(monitor.window) <= Len(log) /\ Len(monitor.window) <= ErrorWindowSize
    /\ Len(monitor.window) = Len(log) \/ Len(monitor.window) = ErrorWindowSize
    /\ \A i \in 1..Len(monitor.window) :
          monitor.window[i] <=> log[Len(log) - Len(monitor.window) + i].isError

PrintsFollow ==
    /\ Len(monitor.prints) <= monitor.fails /\ Len(monitor.prints) <= RepetitiveFailThreshold
    /\ Len(monitor.prints) = monitor.fails \/ Len(monitor.prints) = RepetitiveFailThreshold
    /\ \A i \in 1..Len(monitor.prints) :
          monitor.prints[i] = log[Len(log) - Len(monitor.prints) + i].fp

VerdictFollows ==
    /\ verdict \in {"none", "repeat", "frustrated", "halt"}
    /\ monitor.fails >= FrustrationThreshold => verdict # "none"
    /\ verdict = "halt" => monitor.fails > 0 /\ Monitor!Cascades(monitor)

MonitorInv ==
    /\ log \in Seq(Executions) /\ monitor \in Monitor!Counters
    /\ FailsFollow /\ WindowFollows /\ PrintsFollow /\ VerdictFollows

-----------------------------------------------------------------------------
\* A sliding array keeps its newest elements.
LEMMA SlideKeeps ==
    ASSUME NEW S, NEW s \in Seq(S), NEW e \in S, NEW size \in Nat \ {0}, Len(s) <= size
    PROVE  /\ Monitor!Slide(s, e, size) \in Seq(S)
           /\ Len(s) < size =>
                /\ Len(Monitor!Slide(s, e, size)) = Len(s) + 1
                /\ \A i \in 1..Len(s) : Monitor!Slide(s, e, size)[i] = s[i]
                /\ Monitor!Slide(s, e, size)[Len(s) + 1] = e
           /\ Len(s) = size =>
                /\ Len(Monitor!Slide(s, e, size)) = size
                /\ \A i \in 1..(size - 1) : Monitor!Slide(s, e, size)[i] = s[i + 1]
                /\ Monitor!Slide(s, e, size)[size] = e
<1>1. PICK n \in Nat : n = Len(s)
  BY LenProperties
<1>2. PICK t : t = Append(s, e)
  OBVIOUS
<1>3. /\ t \in Seq(S) /\ Len(t) = n + 1 /\ t[n + 1] = e
      /\ \A i \in 1..n : t[i] = s[i]
  BY <1>1, <1>2, AppendProperties
<1>4. Monitor!Slide(s, e, size) = IF Len(t) > size THEN Tail(t) ELSE t
  BY <1>2 DEF Monitor!Slide
<1>5. CASE n < size
  <2>1. Monitor!Slide(s, e, size) = t
    BY <1>3, <1>4, <1>5
  <2> QED
    BY <1>1, <1>3, <1>5, <2>1
<1>6. CASE n = size
  <2>1. t # <<>>
    BY <1>2, <1>3, EmptySeq
  <2>2. /\ Tail(t) \in Seq(S) /\ Len(Tail(t)) = n
        /\ \A i \in 1..n : Tail(t)[i] = t[i + 1]
    BY <1>3, <2>1, HeadTailProperties
  <2>3. Monitor!Slide(s, e, size) = Tail(t)
    BY <1>3, <1>4, <1>6
  <2>4. \A i \in 1..(n - 1) : i \in 1..n /\ i + 1 \in 1..n
    OBVIOUS
  <2>5. n \in 1..n
    BY <1>6
  <2> QED
    BY <1>1, <1>3, <1>6, <2>2, <2>3, <2>4, <2>5
<1> QED
  BY <1>1, <1>5, <1>6

LEMMA SlideGrows ==
    ASSUME NEW S, NEW s \in Seq(S), NEW e \in S, NEW size \in Nat \ {0}, NEW k \in Nat,
           k = Len(s), k < size
    PROVE  /\ Monitor!Slide(s, e, size) \in Seq(S) /\ Len(Monitor!Slide(s, e, size)) = k + 1
           /\ \A i \in 1..k : Monitor!Slide(s, e, size)[i] = s[i]
           /\ Monitor!Slide(s, e, size)[k + 1] = e
<1>1. Len(s) < size /\ Len(s) <= size
  OBVIOUS
<1> QED
  BY <1>1, SlideKeeps

Shifted(t, s, e, size) ==
    Len(t) = size /\ (\A i \in 1..(size - 1) : t[i] = s[i + 1]) /\ t[size] = e

LEMMA SlideShifts ==
    ASSUME NEW S, NEW s \in Seq(S), NEW e \in S, NEW size \in Nat \ {0}, Len(s) = size
    PROVE  Shifted(Monitor!Slide(s, e, size), s, e, size)
<1>1. Len(s) <= size
  OBVIOUS
<1>2. /\ Monitor!Slide(s, e, size) \in Seq(S) /\ Len(Monitor!Slide(s, e, size)) = size
      /\ \A i \in 1..(size - 1) : Monitor!Slide(s, e, size)[i] = s[i + 1]
      /\ Monitor!Slide(s, e, size)[size] = e
  BY <1>1, SlideKeeps
<1> QED
  BY <1>2 DEF Shifted

\* What the last executions are, place by place.
LEMMA LatelyPlaces ==
    ASSUME log \in Seq(Executions), NEW n \in Nat, NEW m \in Nat, NEW len \in Nat, len = Len(log),
           m <= len, m <= n, m = len \/ m = n
    PROVE  /\ Len(Monitor!Lately(n)) = m /\ DOMAIN Monitor!Lately(n) = 1..m
           /\ \A i \in 1..m : Monitor!Lately(n)[i] = log[len - m + i]
<1>1. (IF n >= len THEN 1 ELSE len - n + 1) = len - m + 1
  OBVIOUS
<1>2. Monitor!Lately(n) = SubSeq(log, len - m + 1, len)
  BY <1>1 DEF Monitor!Lately
<1>3. PICK a \in 1..(len + 1) : a = len - m + 1
  OBVIOUS
<1>4. len \in (a - 1)..len
  OBVIOUS
<1>5. /\ SubSeq(log, a, len) \in Seq(Executions)
      /\ Len(SubSeq(log, a, len)) = IF a <= len THEN len - a + 1 ELSE 0
      /\ \A i \in 1..(len - a + 1) : SubSeq(log, a, len)[i] = log[a + i - 1]
  BY <1>3, <1>4, SubSeqProperties
<1>6. \A i \in 1..m : a + i - 1 = len - m + i
  BY <1>3
<1>7. len - a + 1 = m
  BY <1>3
<1>8. Len(SubSeq(log, a, len)) = m
  BY <1>5, <1>7
<1>9. DOMAIN SubSeq(log, a, len) = 1..m
  BY <1>5, <1>8, LenProperties
<1> QED
  BY <1>2, <1>3, <1>5, <1>6, <1>7, <1>8, <1>9

LEMMA LatelyAll ==
    ASSUME log \in Seq(Executions), NEW n \in Nat, NEW len \in Nat, len = Len(log), n <= len
    PROVE  DOMAIN Monitor!Lately(n) = 1..n /\ \A i \in 1..n : Monitor!Lately(n)[i] = log[len - n + i]
<1>1. n <= n
  OBVIOUS
<1> QED
  BY <1>1, LatelyPlaces

\* The streak of failures is counted exactly.
LEMMA StreakIsCounted == ASSUME MonitorInv PROVE Monitor!Streak = monitor.fails
<1>1. PICK len \in Nat : len = Len(log)
  BY LenProperties DEF MonitorInv
<1>2. PICK f \in Nat : f = monitor.fails /\ f <= len
  BY <1>1 DEF MonitorInv, FailsFollow, Monitor!Counters
<1>3. ASSUME NEW n \in 0..len
      PROVE  Monitor!AllFailed(Monitor!Lately(n)) <=> \A i \in 1..n : log[len - n + i].isError
  <2>1. /\ DOMAIN Monitor!Lately(n) = 1..n
        /\ \A i \in 1..n : Monitor!Lately(n)[i] = log[len - n + i]
    <3>1. n \in Nat /\ n <= len /\ n <= n /\ log \in Seq(Executions)
      BY DEF MonitorInv
    <3> QED
      BY <1>1, <3>1, LatelyPlaces
  <2> QED
    BY <2>1 DEF Monitor!AllFailed
<1>4. Monitor!AllFailed(Monitor!Lately(f)) /\ (f = len \/ ~log[len - f].isError)
  <2>1. \A i \in 1..f : len - f + i \in 1..len /\ len - f + i > len - f
    BY <1>2
  <2>2. \A i \in 1..f : log[len - f + i].isError
    BY <1>1, <1>2, <2>1 DEF MonitorInv, FailsFollow
  <2>3. Monitor!AllFailed(Monitor!Lately(f))
    <3>1. f \in 0..len
      BY <1>2
    <3> QED
      BY <1>3, <2>2, <3>1
  <2>4. f < len => ~log[len - f].isError
    BY <1>1, <1>2 DEF MonitorInv, FailsFollow
  <2>5. f = len \/ f < len
    BY <1>2
  <2> QED
    BY <2>3, <2>4, <2>5
<1>5. ASSUME NEW n \in 0..len, Monitor!AllFailed(Monitor!Lately(n)), n = len \/ ~log[len - n].isError
      PROVE  n = f
  <2>1. \A i \in 1..n : log[len - n + i].isError
    BY <1>3, <1>5
  <2>2. ~(f < n)
    <3> SUFFICES ASSUME f < n PROVE FALSE
      OBVIOUS
    <3>1. n - f \in 1..n /\ len - n + (n - f) = len - f /\ f # len
      BY <1>2
    <3> QED
      BY <1>4, <2>1, <3>1
  <2>3. ~(n < f)
    <3> SUFFICES ASSUME n < f PROVE FALSE
      OBVIOUS
    <3>1. f - n \in 1..f /\ len - f + (f - n) = len - n /\ n # len
      BY <1>2
    <3>2. \A i \in 1..f : log[len - f + i].isError
      <4>1. f \in 0..len
        BY <1>2
      <4> QED
        BY <1>3, <1>4, <4>1
    <3> QED
      BY <1>5, <3>1, <3>2
  <2> QED
    BY <1>2, <2>2, <2>3
<1>6. Monitor!Streak = CHOOSE n \in 0..len : Monitor!AllFailed(Monitor!Lately(n)) /\ (n = len \/ ~log[len - n].isError)
  BY <1>1 DEF Monitor!Streak
<1>7. f \in 0..len
  BY <1>2
<1> QED
  BY <1>2, <1>4, <1>5, <1>6, <1>7

LEMMA SummariesFollow == ASSUME MonitorBounds, MonitorInv PROVE Monitor!SummariesMatchLog
<1>1. PICK len \in Nat : len = Len(log)
  BY LenProperties DEF MonitorInv
<1>2. monitor \in Monitor!Counters /\ log \in Seq(Executions)
  BY DEF MonitorInv
<1>3. PICK f \in Nat : f = monitor.fails /\ f <= len
  BY <1>1 DEF MonitorInv, FailsFollow, Monitor!Counters
<1>4. Monitor!Streak = f
  BY <1>3, StreakIsCounted
<1>5. monitor.window = [i \in DOMAIN Monitor!Lately(ErrorWindowSize) |-> Monitor!Lately(ErrorWindowSize)[i].isError]
  <2>1. PICK w \in Seq(BOOLEAN) : w = monitor.window
    BY <1>2 DEF Monitor!Counters
  <2>2. PICK m \in Nat : m = Len(w)
    BY LenProperties
  <2>3. /\ m <= len /\ m <= ErrorWindowSize /\ (m = len \/ m = ErrorWindowSize)
        /\ \A i \in 1..m : w[i] <=> log[len - m + i].isError
    BY <1>1, <2>1, <2>2 DEF MonitorInv, WindowFollows
  <2>4. /\ DOMAIN Monitor!Lately(ErrorWindowSize) = 1..m
        /\ \A i \in 1..m : Monitor!Lately(ErrorWindowSize)[i] = log[len - m + i]
    BY <1>1, <1>2, <2>3, LatelyPlaces DEF MonitorBounds
  <2>5. w \in [1..m -> BOOLEAN]
    BY <2>2, LenProperties
  <2>6. \A i \in 1..m : len - m + i \in 1..len
    BY <2>3
  <2>7. ASSUME NEW i \in 1..m PROVE w[i] = log[len - m + i].isError
    <3>1. log[len - m + i] \in Executions
      BY <1>1, <1>2, <2>6, ElementOfSeq
    <3>2. PICK b \in BOOLEAN : b = log[len - m + i].isError
      BY <3>1 DEF Executions
    <3>3. PICK c \in BOOLEAN : c = w[i]
      BY <2>5
    <3>4. c <=> b
      BY <2>3, <3>2, <3>3
    <3> QED
      BY <3>2, <3>3, <3>4
  <2>8. w = [i \in 1..m |-> log[len - m + i].isError]
    BY <2>5, <2>7
  <2> QED
    BY <2>1, <2>4, <2>8
<1>6. ASSUME NEW n, n = IF Monitor!Streak < RepetitiveFailThreshold THEN Monitor!Streak ELSE RepetitiveFailThreshold
      PROVE  monitor.prints = [i \in 1..n |-> Monitor!Lately(n)[i].fp]
  <2>1. PICK p \in Seq(Prints) : p = monitor.prints
    BY <1>2 DEF Monitor!Counters
  <2>2. PICK m \in Nat : m = Len(p)
    BY LenProperties
  <2>3. /\ m <= f /\ m <= RepetitiveFailThreshold /\ (m = f \/ m = RepetitiveFailThreshold)
        /\ \A i \in 1..m : p[i] = log[len - m + i].fp
    BY <1>1, <1>3, <2>1, <2>2 DEF MonitorInv, PrintsFollow
  <2>4. n = m
    BY <1>4, <1>6, <2>3 DEF MonitorBounds
  <2>5. \A i \in 1..m : Monitor!Lately(m)[i] = log[len - m + i]
    <3>1. m <= len
      BY <1>3, <2>3
    <3>2. m <= m /\ m \in Nat
      OBVIOUS
    <3> QED
      BY <1>1, <1>2, <3>1, <3>2, LatelyPlaces
  <2>6. p \in [1..m -> Prints]
    BY <2>2, LenProperties
  <2>7. p = [i \in 1..m |-> Monitor!Lately(m)[i].fp]
    BY <2>3, <2>5, <2>6
  <2> QED
    BY <2>1, <2>4, <2>7
<1>7. monitor.fails = Monitor!Streak
  BY <1>3, <1>4
<1> QED
  BY <1>5, <1>6, <1>7 DEF Monitor!SummariesMatchLog

LEMMA StreaksAreAnswered == ASSUME MonitorBounds, MonitorInv PROVE Monitor!NoSilentStreak
<1> SUFFICES ASSUME Len(log) >= FrustrationThreshold, Monitor!AllFailed(Monitor!Lately(FrustrationThreshold))
             PROVE  verdict # "none"
  BY DEF Monitor!NoSilentStreak
<1>1. PICK len \in Nat : len = Len(log)
  BY LenProperties DEF MonitorInv
<1>2. PICK f \in Nat : f = monitor.fails /\ f <= len
  BY <1>1 DEF MonitorInv, FailsFollow, Monitor!Counters
<1>3. PICK m \in Nat : m = FrustrationThreshold /\ m <= len /\ m > 0
  BY <1>1 DEF MonitorBounds
<1>4. /\ DOMAIN Monitor!Lately(m) = 1..m
      /\ \A i \in 1..m : Monitor!Lately(m)[i] = log[len - m + i]
  BY <1>1, <1>3, LatelyAll DEF MonitorInv
<1>5. \A i \in 1..m : log[len - m + i].isError
  BY <1>3, <1>4 DEF Monitor!AllFailed
<1>6. f >= m
  <2> SUFFICES ASSUME f < m PROVE FALSE
    BY <1>2, <1>3
  <2>1. m - f \in 1..m /\ len - m + (m - f) = len - f /\ f < len
    BY <1>2, <1>3
  <2>2. ~log[len - f].isError
    BY <1>1, <1>2, <2>1 DEF MonitorInv, FailsFollow
  <2> QED
    BY <1>5, <2>1, <2>2
<1> QED
  BY <1>2, <1>3, <1>6 DEF MonitorInv, VerdictFollows

LEMMA HaltsFollow == ASSUME MonitorBounds, MonitorInv PROVE Monitor!HaltsOnEvidence
<1> SUFFICES ASSUME verdict = "halt"
             PROVE  /\ Len(log) >= ErrorWindowSize
                    /\ Monitor!FailuresOf(Monitor!Lately(ErrorWindowSize)) * RateDen >= RateNum * ErrorWindowSize
                    /\ log[Len(log)].isError
  BY DEF Monitor!HaltsOnEvidence
<1>1. PICK len \in Nat : len = Len(log)
  BY LenProperties DEF MonitorInv
<1>2. PICK f \in Nat : f = monitor.fails /\ f <= len /\ f > 0 /\ Monitor!Cascades(monitor)
  BY <1>1 DEF MonitorInv, FailsFollow, VerdictFollows, Monitor!Counters
<1>3. PICK w \in Seq(BOOLEAN) : w = monitor.window
  BY DEF MonitorInv, Monitor!Counters
<1>4. PICK m \in Nat : m = Len(w)
  BY LenProperties
<1>5. /\ m <= len /\ m <= ErrorWindowSize /\ (m = len \/ m = ErrorWindowSize)
      /\ \A i \in 1..m : w[i] <=> log[len - m + i].isError
  BY <1>1, <1>3, <1>4 DEF MonitorInv, WindowFollows
<1>6. m >= ErrorWindowSize /\ Monitor!ErrorCount(w) * RateDen >= RateNum * m
  BY <1>2, <1>3, <1>4 DEF Monitor!Cascades
<1>7. m = ErrorWindowSize
  BY <1>5, <1>6 DEF MonitorBounds
<1>8. /\ DOMAIN Monitor!Lately(ErrorWindowSize) = 1..m
      /\ \A i \in 1..m : Monitor!Lately(ErrorWindowSize)[i] = log[len - m + i]
  BY <1>1, <1>5, LatelyPlaces DEF MonitorBounds, MonitorInv
<1>9. DOMAIN w = 1..m
  BY <1>4, LenProperties
<1>10. {i \in DOMAIN w : w[i]} =
         {i \in DOMAIN Monitor!Lately(ErrorWindowSize) : Monitor!Lately(ErrorWindowSize)[i].isError}
  BY <1>5, <1>8, <1>9
<1>11. Monitor!FailuresOf(Monitor!Lately(ErrorWindowSize)) = Monitor!ErrorCount(w)
  BY <1>10 DEF Monitor!FailuresOf, Monitor!ErrorCount
<1>12. log[len].isError
  <2>1. len \in 1..len /\ len > len - f
    BY <1>2
  <2> QED
    BY <1>1, <1>2, <2>1 DEF MonitorInv, FailsFollow
<1> QED
  BY <1>1, <1>5, <1>6, <1>7, <1>11, <1>12

-----------------------------------------------------------------------------
LEMMA MonitorBegins == ASSUME MonitorBounds, monitor = Monitor!Fresh, log = <<>>, verdict = "none" PROVE MonitorInv
<1>1. /\ monitor \in Monitor!Counters /\ monitor.fails = 0 /\ monitor.window = <<>> /\ monitor.prints = <<>>
  BY DEF Monitor!Fresh, Monitor!Counters
<1>2. log \in Seq(Executions) /\ Len(log) = 0 /\ Len(monitor.window) = 0 /\ Len(monitor.prints) = 0
  BY <1>1
<1>3. 1..0 = {}
  OBVIOUS
<1> QED
  BY <1>1, <1>2, <1>3
     DEF MonitorInv, FailsFollow, WindowFollows, PrintsFollow, VerdictFollows, MonitorBounds

\* What an execution leaves of the counters.
Leaves(m, w, f, p) == [m EXCEPT !.window = w, !.fails = f, !.prints = p]

Holds(m, w, f, p) == m \in Monitor!Counters /\ m.window = w /\ m.fails = f /\ m.prints = p

LEMMA LeavesFields ==
    ASSUME NEW m \in Monitor!Counters, NEW w \in Seq(BOOLEAN), NEW f \in Nat, NEW p \in Seq(Prints)
    PROVE  Holds(Leaves(m, w, f, p), w, f, p)
<1>2. PICK a \in Monitor!Counters : a = [m EXCEPT !.window = w]
  BY DEF Monitor!Counters
<1>3. PICK b \in Monitor!Counters : b = [a EXCEPT !.fails = f]
  BY DEF Monitor!Counters
<1>4. Leaves(m, w, f, p) = [b EXCEPT !.prints = p]
  BY <1>2, <1>3 DEF Monitor!Counters, Leaves
<1>5. b.fails = f /\ b.window = w
  BY <1>2, <1>3 DEF Monitor!Counters
<1> QED
  BY <1>4, <1>5 DEF Monitor!Counters, Holds

LEMMA MonitorGoesOn ==
    ASSUME MonitorBounds, MonitorInv, NEW fp \in Prints, NEW isError \in BOOLEAN,
           Monitor!AfterToolExecution(fp, isError)
    PROVE  MonitorInv'
<1>1. monitor \in Monitor!Counters /\ log \in Seq(Executions)
  BY DEF MonitorInv
<1>2. PICK len \in Nat : len = Len(log)
  BY <1>1, LenProperties
<1>3. PICK f \in Nat : f = monitor.fails
  BY <1>1 DEF Monitor!Counters
<1>4. PICK w \in Seq(BOOLEAN) : w = monitor.window
  BY <1>1 DEF Monitor!Counters
<1>5. PICK p \in Seq(Prints) : p = monitor.prints
  BY <1>1 DEF Monitor!Counters
<1>6. PICK n \in Nat : n = Len(w)
  BY LenProperties
<1>7. PICK r \in Nat : r = Len(p)
  BY LenProperties
<1>8. PICK entry \in Executions : entry = [fp |-> fp, isError |-> isError]
  BY DEF Executions
<1>9. /\ log' \in Seq(Executions) /\ Len(log') = len + 1 /\ log'[len + 1] = entry
      /\ \A i \in 1..len : log'[i] = log[i]
  BY <1>1, <1>2, <1>8, AppendProperties DEF Monitor!AfterToolExecution
<1>10. PICK w2 \in Seq(BOOLEAN) : w2 = Monitor!Slide(w, isError, ErrorWindowSize)
  BY <1>4, <1>6, SlideKeeps DEF MonitorInv, WindowFollows, MonitorBounds
<1>11. PICK f2 \in Nat : f2 = IF isError THEN f + 1 ELSE 0
  OBVIOUS
<1>12. Monitor!Slide(p, fp, RepetitiveFailThreshold) \in Seq(Prints)
  BY <1>5, <1>7, SlideKeeps DEF MonitorInv, PrintsFollow, MonitorBounds
<1>13. PICK p2 \in Seq(Prints) :
          p2 = IF isError THEN Monitor!Slide(p, fp, RepetitiveFailThreshold) ELSE <<>>
  <2>1. <<>> \in Seq(Prints)
    OBVIOUS
  <2>2. CASE isError
    BY <1>12, <2>2
  <2>3. CASE ~isError
    BY <2>1, <2>3
  <2> QED
    BY <2>2, <2>3
<1>14. monitor' = Monitor!RecordExecution(monitor, fp, isError) /\ verdict' = Monitor!Verdict(monitor', fp, isError)
  BY DEF Monitor!AfterToolExecution
<1>15. monitor' \in Monitor!Counters /\ monitor'.window = w2 /\ monitor'.fails = f2 /\ monitor'.prints = p2
  <2>1. monitor' = Leaves(monitor, Monitor!Slide(monitor.window, isError, ErrorWindowSize),
                          IF isError THEN monitor.fails + 1 ELSE 0,
                          IF isError THEN Monitor!Slide(monitor.prints, fp, RepetitiveFailThreshold) ELSE <<>>)
    BY <1>14 DEF Monitor!RecordExecution, Leaves
  <2>2. monitor' = Leaves(monitor, w2, f2, p2)
    BY <1>3, <1>4, <1>5, <1>10, <1>11, <1>13, <2>1
  <2> QED
    <3>1. PICK m \in Monitor!Counters : m = monitor
      BY <1>1
    <3>2. PICK m2 : m2 = Leaves(m, w2, f2, p2)
      OBVIOUS
    <3>3. m2 \in Monitor!Counters /\ m2.window = w2 /\ m2.fails = f2 /\ m2.prints = p2
      <4>1. Holds(m2, w2, f2, p2)
        BY <3>2, LeavesFields
      <4> QED
        BY <4>1 DEF Holds
    <3>4. monitor' = m2
      BY <2>2, <3>1, <3>2
    <3> QED
      BY <3>3, <3>4
<1>16. entry.fp = fp /\ (entry.isError <=> isError)
  BY <1>8
<1>17. FailsFollow'
  <2>1. /\ f <= len
        /\ \A i \in 1..len : i > len - f => log[i].isError
        /\ f < len => ~log[len - f].isError
    BY <1>2, <1>3 DEF MonitorInv, FailsFollow
  <2>2. CASE isError
    <3>1. f2 = f + 1 /\ len + 1 - f2 = len - f
      BY <1>11, <2>2
    <3>2. ASSUME NEW i \in 1..(len + 1), i > len - f PROVE log'[i].isError
      <4>1. CASE i = len + 1
        BY <1>9, <1>16, <2>2, <4>1
      <4>2. CASE i # len + 1
        BY <1>9, <2>1, <3>2, <4>2
      <4> QED
        BY <4>1, <4>2
    <3>3. f2 < len + 1 => ~log'[len - f].isError
      <4> HAVE f2 < len + 1
      <4>1. f < len /\ len - f \in 1..len
        BY <2>1, <3>1
      <4> QED
        BY <1>9, <2>1, <4>1
    <3>4. f2 <= len + 1
      BY <2>1, <3>1
    <3> QED
      BY <1>9, <1>15, <3>1, <3>2, <3>3, <3>4 DEF FailsFollow
  <2>3. CASE ~isError
    <3>1. f2 = 0 /\ len + 1 - f2 = len + 1
      BY <1>11, <2>3
    <3>2. ~log'[len + 1].isError
      BY <1>9, <1>16, <2>3
    <3> QED
      BY <1>9, <1>15, <3>1, <3>2 DEF FailsFollow
  <2> QED
    BY <2>2, <2>3
<1>18. WindowFollows'
  <2>1. /\ n <= len /\ n <= ErrorWindowSize /\ (n = len \/ n = ErrorWindowSize)
        /\ \A i \in 1..n : w[i] <=> log[len - n + i].isError
    BY <1>2, <1>4, <1>6 DEF MonitorInv, WindowFollows
  <2>2. CASE n < ErrorWindowSize
    <3>1. /\ Len(w2) = n + 1 /\ \A i \in 1..n : w2[i] = w[i]
          /\ w2[n + 1] = isError
      <4>1. PICK d \in BOOLEAN : d = isError
        OBVIOUS
      <4>2. w2 = Monitor!Slide(w, d, ErrorWindowSize)
        BY <1>10, <4>1
      <4> QED
        BY <1>6, <2>2, <4>1, <4>2, SlideGrows DEF MonitorBounds
    <3>2. n = len
      BY <2>1, <2>2
    <3>3. ASSUME NEW i \in 1..(n + 1) PROVE w2[i] <=> log'[i].isError
      <4>1. CASE i = n + 1
        BY <1>9, <1>16, <3>1, <3>2, <4>1
      <4>2. CASE i # n + 1
        <5>1. i \in 1..n /\ len - n + i = i
          BY <3>2, <4>2
        <5> QED
          BY <1>9, <2>1, <3>1, <3>2, <5>1
      <4> QED
        BY <4>1, <4>2
    <3>4. \A i \in 1..(n + 1) : (len + 1) - (n + 1) + i = i
      BY <3>2
    <3> QED
      BY <1>9, <1>15, <2>1, <2>2, <3>1, <3>2, <3>3, <3>4 DEF WindowFollows, MonitorBounds
  <2>3. CASE n = ErrorWindowSize
    <3>1. /\ Len(w2) = n /\ \A i \in 1..(n - 1) : w2[i] = w[i + 1]
          /\ w2[n] = isError
      <4>1. PICK d \in BOOLEAN : d = isError
        OBVIOUS
      <4>2. w2 = Monitor!Slide(w, d, ErrorWindowSize)
        BY <1>10, <4>1
      <4> QED
        <5>1. Len(w) = ErrorWindowSize /\ ErrorWindowSize \in Nat \ {0}
          BY <1>6, <2>3 DEF MonitorBounds
        <5>2. Shifted(w2, w, d, ErrorWindowSize)
          BY <4>1, <4>2, <5>1, SlideShifts
        <5> QED
          BY <2>3, <4>1, <5>2 DEF Shifted
    <3>2. ASSUME NEW i \in 1..n PROVE w2[i] <=> log'[(len + 1) - n + i].isError
      <4>1. CASE i = n
        <5>1. (len + 1) - n + i = len + 1
          BY <4>1
        <5> QED
          BY <1>9, <1>16, <3>1, <4>1, <5>1
      <4>2. CASE i # n
        <5>1. /\ i \in 1..(n - 1) /\ i + 1 \in 1..n
              /\ (len + 1) - n + i = len - n + (i + 1) /\ len - n + (i + 1) \in 1..len
          BY <2>1, <4>2
        <5>2. w2[i] <=> log[len - n + (i + 1)].isError
          BY <2>1, <3>1, <5>1
        <5> QED
          BY <1>9, <5>1, <5>2
      <4> QED
        BY <4>1, <4>2
    <3> QED
      <4>1. n <= len + 1 /\ n <= ErrorWindowSize
        BY <2>1
      <4> QED
        BY <1>9, <1>15, <2>3, <3>1, <3>2, <4>1 DEF WindowFollows
  <2> QED
    BY <2>1, <2>2, <2>3 DEF MonitorBounds
<1>19. PrintsFollow'
  <2>1. /\ r <= f /\ r <= RepetitiveFailThreshold /\ (r = f \/ r = RepetitiveFailThreshold)
        /\ \A i \in 1..r : p[i] = log[len - r + i].fp
        /\ f <= len
    BY <1>2, <1>3, <1>5, <1>7 DEF MonitorInv, PrintsFollow, FailsFollow
  <2>2. CASE ~isError
    <3>1. p2 = <<>> /\ Len(p2) = 0 /\ f2 = 0
      BY <1>11, <1>13, <2>2
    <3> QED
      BY <1>15, <3>1 DEF PrintsFollow, MonitorBounds
  <2>3. CASE isError /\ r < RepetitiveFailThreshold
    <3>1. /\ Len(p2) = r + 1 /\ \A i \in 1..r : p2[i] = p[i]
          /\ p2[r + 1] = fp
      <4>1. p2 = Monitor!Slide(p, fp, RepetitiveFailThreshold)
        BY <1>13, <2>3
      <4> QED
        BY <1>7, <2>3, <4>1, SlideGrows DEF MonitorBounds
    <3>2. r = f /\ f2 = f + 1
      BY <1>11, <2>1, <2>3
    <3>3. ASSUME NEW i \in 1..(r + 1) PROVE p2[i] = log'[(len + 1) - (r + 1) + i].fp
      <4>1. CASE i = r + 1
        <5>1. (len + 1) - (r + 1) + i = len + 1
          BY <4>1
        <5> QED
          BY <1>9, <1>16, <3>1, <4>1, <5>1
      <4>2. CASE i # r + 1
        <5>1. /\ i \in 1..r /\ (len + 1) - (r + 1) + i = len - r + i /\ len - r + i \in 1..len
          BY <2>1, <4>2
        <5> QED
          BY <1>9, <2>1, <3>1, <5>1
      <4> QED
        BY <4>1, <4>2
    <3> QED
      BY <1>9, <1>15, <2>3, <3>1, <3>2, <3>3 DEF PrintsFollow, MonitorBounds
  <2>4. CASE isError /\ r = RepetitiveFailThreshold
    <3>1. /\ Len(p2) = r /\ \A i \in 1..(r - 1) : p2[i] = p[i + 1]
          /\ p2[r] = fp
      <4>1. p2 = Monitor!Slide(p, fp, RepetitiveFailThreshold)
        BY <1>13, <2>4
      <4> QED
        <5>1. Len(p) = RepetitiveFailThreshold /\ RepetitiveFailThreshold \in Nat \ {0}
          BY <1>7, <2>4 DEF MonitorBounds
        <5>2. Shifted(p2, p, fp, RepetitiveFailThreshold)
          BY <4>1, <5>1, SlideShifts
        <5> QED
          BY <2>4, <5>2 DEF Shifted
    <3>2. f2 = f + 1
      BY <1>11, <2>4
    <3>3. ASSUME NEW i \in 1..r PROVE p2[i] = log'[(len + 1) - r + i].fp
      <4>1. CASE i = r
        <5>1. (len + 1) - r + i = len + 1
          BY <4>1
        <5> QED
          BY <1>9, <1>16, <3>1, <4>1, <5>1
      <4>2. CASE i # r
        <5>0. r <= len
          BY <2>1
        <5>1. /\ i \in 1..(r - 1) /\ i + 1 \in 1..r
              /\ (len + 1) - r + i = len - r + (i + 1) /\ len - r + (i + 1) \in 1..len
          BY <4>2, <5>0
        <5> QED
          BY <1>9, <2>1, <3>1, <5>1
      <4> QED
        BY <4>1, <4>2
    <3> QED
      BY <1>9, <1>15, <2>1, <2>4, <3>1, <3>2, <3>3 DEF PrintsFollow
  <2> QED
    BY <2>1, <2>2, <2>3, <2>4 DEF MonitorBounds
<1>20. VerdictFollows'
  <2>1. CASE ~isError
    <3>1. verdict' = "none" /\ f2 = 0
      BY <1>11, <1>14, <2>1 DEF Monitor!Verdict
    <3> QED
      BY <1>15, <3>1 DEF VerdictFollows, MonitorBounds
  <2>2. CASE isError
    <3>1. f2 > 0
      BY <1>11, <2>2
    <3>2. /\ verdict' \in {"none", "repeat", "frustrated", "halt"}
          /\ Monitor!Frustrated(monitor') => verdict' # "none"
          /\ verdict' = "halt" => Monitor!Cascades(monitor')
      BY <1>14, <2>2 DEF Monitor!Verdict
    <3> QED
      BY <1>15, <3>1, <3>2 DEF VerdictFollows, Monitor!Frustrated, Monitor!Cascades
  <2> QED
    BY <2>1, <2>2
<1> QED
  BY <1>9, <1>15, <1>17, <1>18, <1>19, <1>20 DEF MonitorInv

\* The summaries the monitor keeps are those of its whole log, no streak of failures goes
\* unanswered, and it halts on evidence alone (safety-monitor.ts).
THEOREM MonitorFollowsLog ==
    ASSUME MonitorBounds
    PROVE  Monitor!Spec => [](Monitor!TypeOK /\ Monitor!SummariesMatchLog /\ Monitor!NoSilentStreak /\ Monitor!HaltsOnEvidence)
<1>1. Monitor!Init => MonitorInv
  BY MonitorBegins DEF Monitor!Init
<1>2. MonitorInv /\ [Monitor!Next]_Monitor!vars => MonitorInv'
  <2> SUFFICES ASSUME MonitorInv, [Monitor!Next]_Monitor!vars PROVE MonitorInv'
    OBVIOUS
  <2>1. ASSUME NEW fp \in Prints, NEW isError \in BOOLEAN, Monitor!AfterToolExecution(fp, isError)
        PROVE  MonitorInv'
    BY <2>1, MonitorGoesOn
  <2>2. ASSUME Monitor!Reset PROVE MonitorInv'
    <3>1. monitor' = Monitor!Fresh /\ log' = <<>> /\ verdict' = "none"
      BY <2>2 DEF Monitor!Reset
    <3>2. /\ monitor' \in Monitor!Counters /\ monitor'.fails = 0 /\ monitor'.window = <<>>
          /\ monitor'.prints = <<>>
      BY <3>1 DEF Monitor!Fresh, Monitor!Counters
    <3>3. log' \in Seq(Executions) /\ Len(log') = 0 /\ Len(monitor'.window) = 0 /\ Len(monitor'.prints) = 0
      BY <3>1, <3>2
    <3> QED
      BY <3>1, <3>2, <3>3
         DEF MonitorInv, FailsFollow, WindowFollows, PrintsFollow, VerdictFollows, MonitorBounds
  <2>3. CASE UNCHANGED Monitor!vars
    BY <2>3 DEF Monitor!vars, MonitorInv, FailsFollow, WindowFollows, PrintsFollow, VerdictFollows
  <2> QED
    BY <2>1, <2>2, <2>3 DEF Monitor!Next
<1>3. MonitorInv => Monitor!TypeOK /\ Monitor!SummariesMatchLog /\ Monitor!NoSilentStreak /\ Monitor!HaltsOnEvidence
  BY SummariesFollow, StreaksAreAnswered, HaltsFollow
     DEF MonitorInv, Monitor!TypeOK, WindowFollows, PrintsFollow, VerdictFollows
<1> QED
  BY <1>1, <1>2, <1>3, PTL DEF Monitor!Spec


-----------------------------------------------------------------------------
(* Inputs and their ends (command-registry.ts). *)

CommandBounds == MaxHandlers \in Nat /\ PlainInput \notin Names

TypedInputs == [name : Names \cup {PlainInput}, place : Commands!Places, at : 1..(MaxHandlers + 1), known : Nat]
Notices == [of : Nat, kind : {"answer", "error"}]

CommandsTyped ==
    /\ commandHandlers \in [Names -> 0..MaxHandlers]
    /\ inputs \in Seq(TypedInputs) /\ typed \in Seq(Nat) /\ said \in Seq(Notices)

\* A command that is asked has a handler to ask, and had no more when it was typed than
\* there are.
AskedAreKnown ==
    \A n \in 1..Len(inputs) :
        /\ inputs[n].place \in {"asked", "passed"} => inputs[n].name \in Names
        /\ inputs[n].place = "asked" =>
              inputs[n].known <= commandHandlers[inputs[n].name] /\ inputs[n].at <= commandHandlers[inputs[n].name]
        /\ inputs[n].place \in {"passed", "queued"} => inputs[n].at > inputs[n].known

\* What is queued is there once ...
QueuedOnce ==
    /\ \A i \in 1..Len(typed) : typed[i] \in 1..Len(inputs) /\ inputs[typed[i]].place = "queued"
    /\ \A i, j \in 1..Len(typed) : i # j => typed[i] # typed[j]
    /\ \A n \in 1..Len(inputs) : inputs[n].place = "queued" => \E i \in 1..Len(typed) : typed[i] = n

\* ... and so is what was said of the others.
SaidOnce ==
    /\ \A i \in 1..Len(said) : /\ said[i].of \in 1..Len(inputs)
                              /\ inputs[said[i].of].place \in {"answered", "failed"}
    /\ \A i, j \in 1..Len(said) : i # j => said[i].of # said[j].of
    /\ \A n \in 1..Len(inputs) : inputs[n].place \in {"answered", "failed"} =>
          \E i \in 1..Len(said) : said[i].of = n

PlainInOrder ==
    \A i, j \in 1..Len(typed) :
        i < j /\ inputs[typed[i]].name = PlainInput /\ inputs[typed[j]].name = PlainInput => typed[i] < typed[j]

CommandsInv == CommandsTyped /\ AskedAreKnown /\ QueuedOnce /\ SaidOnce /\ PlainInOrder

\* One more at the end of a sequence.
LEMMA OneMore ==
    ASSUME NEW S, NEW s \in Seq(S), NEW e \in S, NEW n \in Nat, n = Len(s), NEW t, t = Append(s, e)
    PROVE  /\ t \in Seq(S) /\ Len(t) = n + 1 /\ t[n + 1] = e
           /\ \A i \in 1..n : t[i] = s[i]
BY AppendProperties

\* One input moves on: its place and where it is asked, and nothing else.
Moves(n, place, spot) ==
    /\ inputs' \in Seq(TypedInputs) /\ Len(inputs') = Len(inputs)
    /\ inputs'[n].place = place /\ inputs'[n].at = spot
    /\ inputs'[n].name = inputs[n].name /\ inputs'[n].known = inputs[n].known
    /\ \A m \in 1..Len(inputs) : m # n => inputs'[m] = inputs[m]

LEMMA InputMoves ==
    ASSUME inputs \in Seq(TypedInputs), NEW n \in 1..Len(inputs), NEW place \in Commands!Places,
           NEW spot \in 1..(MaxHandlers + 1), NEW b,
           b = [inputs[n] EXCEPT !.place = place, !.at = spot], inputs' = [inputs EXCEPT ![n] = b]
    PROVE  Moves(n, place, spot)
<1>1. inputs[n] \in TypedInputs
  BY ElementOfSeq
<1>2. PICK a \in TypedInputs : a = [inputs[n] EXCEPT !.place = place]
  BY <1>1 DEF TypedInputs
<1>3. PICK c \in TypedInputs : c = [a EXCEPT !.at = spot]
  BY DEF TypedInputs
<1>4. b = c
  BY <1>1, <1>2, <1>3 DEF TypedInputs
<1>5. b.place = place /\ b.at = spot /\ b.name = inputs[n].name /\ b.known = inputs[n].known
  BY <1>1, <1>2, <1>3, <1>4 DEF TypedInputs
<1>6. b \in TypedInputs
  BY <1>3, <1>4
<1>7. inputs' \in Seq(TypedInputs) /\ Len(inputs') = Len(inputs)
      /\ \A m \in 1..Len(inputs) : inputs'[m] = IF m = n THEN b ELSE inputs[m]
  <2>1. PICK s \in Seq(TypedInputs) : s = inputs
    OBVIOUS
  <2>2. [s EXCEPT ![n] = b] \in Seq(TypedInputs) /\ Len([s EXCEPT ![n] = b]) = Len(s)
        /\ \A m \in 1..Len(s) : [s EXCEPT ![n] = b][m] = IF m = n THEN b ELSE s[m]
    BY <1>6, <2>1, ExceptSeq
  <2> QED
    BY <2>1, <2>2
<1> QED
  BY <1>5, <1>7 DEF Moves

\* What is queued, and what is said, of the others stays as it is.
Waits(n) == n \in 1..Len(inputs) /\ inputs[n].place \in {"asked", "passed"}

LEMMA QueueKeeps ==
    ASSUME CommandsInv, NEW n, Waits(n), NEW place, NEW spot, Moves(n, place, spot),
           place # "queued", typed' = typed
    PROVE  QueuedOnce' /\ PlainInOrder'
<1>1. \A i \in 1..Len(typed) : typed[i] \in 1..Len(inputs) /\ typed[i] # n
  BY DEF CommandsInv, QueuedOnce, Waits
<1>2. \A i \in 1..Len(typed) : inputs'[typed[i]] = inputs[typed[i]]
  BY <1>1 DEF Moves
<1>3. QueuedOnce'
  <2>1. \A i \in 1..Len(typed) : typed[i] \in 1..Len(inputs') /\ inputs'[typed[i]].place = "queued"
    BY <1>1, <1>2 DEF CommandsInv, QueuedOnce, Moves
  <2>2. ASSUME NEW m \in 1..Len(inputs'), inputs'[m].place = "queued"
        PROVE  \E i \in 1..Len(typed) : typed[i] = m
    <3>1. m # n /\ m \in 1..Len(inputs)
      BY <2>2 DEF Moves
    <3>2. inputs'[m] = inputs[m]
      BY <3>1 DEF Moves
    <3> QED
      BY <2>2, <3>1, <3>2 DEF CommandsInv, QueuedOnce
  <2>3. \A i, j \in 1..Len(typed) : i # j => typed[i] # typed[j]
    BY DEF CommandsInv, QueuedOnce
  <2> QED
    BY <2>1, <2>2, <2>3 DEF QueuedOnce
<1>4. PlainInOrder'
  BY <1>2 DEF CommandsInv, PlainInOrder
<1> QED
  BY <1>3, <1>4

LEMMA SaidKeeps ==
    ASSUME CommandsInv, NEW n, Waits(n), NEW place, NEW spot, Moves(n, place, spot),
           place \notin {"answered", "failed"}, said' = said
    PROVE  SaidOnce'
<1>1. \A i \in 1..Len(said) : said[i].of \in 1..Len(inputs) /\ said[i].of # n
  BY DEF CommandsInv, SaidOnce, Waits
<1>2. \A i \in 1..Len(said) : inputs'[said[i].of] = inputs[said[i].of]
  BY <1>1 DEF Moves
<1>3. \A i \in 1..Len(said) : /\ said[i].of \in 1..Len(inputs')
                               /\ inputs'[said[i].of].place \in {"answered", "failed"}
  BY <1>1, <1>2 DEF CommandsInv, SaidOnce, Moves
<1>4. ASSUME NEW m \in 1..Len(inputs'), inputs'[m].place \in {"answered", "failed"}
      PROVE  \E i \in 1..Len(said) : said[i].of = m
  <2>1. m # n /\ m \in 1..Len(inputs)
    BY <1>4 DEF Moves
  <2>2. inputs'[m] = inputs[m]
    BY <2>1 DEF Moves
  <2> QED
    BY <1>4, <2>1, <2>2 DEF CommandsInv, SaidOnce
<1>5. \A i, j \in 1..Len(said) : i # j => said[i].of # said[j].of
  BY DEF CommandsInv, SaidOnce
<1> QED
  BY <1>3, <1>4, <1>5 DEF SaidOnce

LEMMA KnownKeeps ==
    ASSUME CommandsInv, NEW n, Waits(n), NEW place, NEW spot, Moves(n, place, spot), commandHandlers' = commandHandlers,
           place = "asked" => inputs[n].known <= commandHandlers[inputs[n].name] /\ spot <= commandHandlers[inputs[n].name],
           place \in {"passed", "queued"} => spot > inputs[n].known
    PROVE  AskedAreKnown'
<1> SUFFICES ASSUME NEW m \in 1..Len(inputs')
             PROVE  /\ inputs'[m].place \in {"asked", "passed"} => inputs'[m].name \in Names
                    /\ inputs'[m].place = "asked" =>
                          /\ inputs'[m].known <= commandHandlers[inputs'[m].name]
                          /\ inputs'[m].at <= commandHandlers[inputs'[m].name]
                    /\ inputs'[m].place \in {"passed", "queued"} => inputs'[m].at > inputs'[m].known
  BY DEF AskedAreKnown
<1>1. m \in 1..Len(inputs)
  BY DEF Moves
<1>2. CASE m = n
  <2>1. inputs[n].name \in Names
    BY DEF CommandsInv, AskedAreKnown, Waits
  <2> QED
    BY <1>2, <2>1 DEF Moves
<1>3. CASE m # n
  <2>1. inputs'[m] = inputs[m]
    BY <1>1, <1>3 DEF Moves
  <2> QED
    BY <1>1, <2>1 DEF CommandsInv, AskedAreKnown
<1> QED
  BY <1>2, <1>3

LEMMA CommandPasses ==
    ASSUME CommandBounds, CommandsInv, NEW n, Commands!HandlerPasses(n)
    PROVE  CommandsInv'
<1>1. n \in 1..Len(inputs) /\ inputs \in Seq(TypedInputs) /\ inputs[n].place = "asked"
  BY LenProperties DEF Commands!HandlerPasses, Commands!Asked, CommandsInv, CommandsTyped
<1>2. inputs[n] \in TypedInputs
  BY <1>1, ElementOfSeq
<1>3. PICK h \in 0..MaxHandlers : h = commandHandlers[inputs[n].name]
  BY <1>1 DEF CommandsInv, CommandsTyped, AskedAreKnown
<1>4. PICK a \in 1..(MaxHandlers + 1) : a = inputs[n].at /\ a <= h
  BY <1>1, <1>2, <1>3 DEF TypedInputs, CommandsInv, AskedAreKnown
<1>5. a + 1 \in 1..(MaxHandlers + 1)
  BY <1>4 DEF CommandBounds
<1>6. PICK place \in {"asked", "passed"} : place = IF a < h THEN "asked" ELSE "passed"
  OBVIOUS
<1>7. PICK b : b = [inputs[n] EXCEPT !.place = place, !.at = a + 1]
  OBVIOUS
<1>8. inputs' = [inputs EXCEPT ![n] = b]
  <2>1. inputs' = [inputs EXCEPT ![n].at = a + 1, ![n].place = place]
    BY <1>3, <1>4, <1>6 DEF Commands!HandlerPasses
  <2> QED
    BY <1>1, <1>2, <1>7, <2>1 DEF TypedInputs
<1>9. Moves(n, place, a + 1) /\ Waits(n)
  BY <1>1, <1>4, <1>5, <1>6, <1>7, <1>8, InputMoves DEF Waits, Commands!Places
<1>10. UNCHANGED <<commandHandlers, typed, said>>
  BY DEF Commands!HandlerPasses
<1>11. inputs[n].known \in Nat /\ inputs[n].known <= h
  BY <1>1, <1>2, <1>3 DEF TypedInputs, CommandsInv, AskedAreKnown
<1>12. AskedAreKnown'
  <2>1. place = "asked" => a + 1 <= h
    BY <1>3, <1>4, <1>6
  <2>2. place = "passed" => a + 1 > inputs[n].known
    <3>1. CASE a < h
      BY <1>6, <3>1
    <3>2. CASE ~(a < h)
      BY <1>3, <1>4, <1>11, <3>2
    <3> QED
      BY <3>1, <3>2
  <2>3. place # "queued"
    BY <1>6
  <2> QED
    BY <1>3, <1>9, <1>10, <1>11, <2>1, <2>2, <2>3, KnownKeeps
<1>13. QueuedOnce' /\ PlainInOrder' /\ SaidOnce'
  <2>1. place # "queued" /\ place \notin {"answered", "failed"}
    BY <1>6
  <2> QED
    BY <1>9, <1>10, <2>1, QueueKeeps, SaidKeeps
<1>14. CommandsTyped'
  BY <1>9, <1>10 DEF CommandsInv, CommandsTyped, Moves
<1> QED
  BY <1>12, <1>13, <1>14 DEF CommandsInv

\* An input ends where it waits.
LEMMA EndMoves ==
    ASSUME CommandsInv, NEW n, Waits(n), NEW place \in Commands!Places, inputs' = [inputs EXCEPT ![n].place = place]
    PROVE  Moves(n, place, inputs[n].at) /\ inputs[n].at \in 1..(MaxHandlers + 1)
<1>1. n \in 1..Len(inputs) /\ inputs \in Seq(TypedInputs)
  BY DEF Waits, CommandsInv, CommandsTyped
<1>2. inputs[n] \in TypedInputs
  BY <1>1, ElementOfSeq
<1>3. PICK a \in 1..(MaxHandlers + 1) : a = inputs[n].at
  BY <1>2 DEF TypedInputs
<1>4. PICK b : b = [inputs[n] EXCEPT !.place = place, !.at = a]
  OBVIOUS
<1>5. [inputs[n] EXCEPT !.place = place] \in TypedInputs
  BY <1>2 DEF TypedInputs
<1>6. b = [inputs[n] EXCEPT !.place = place]
  <2>1. PICK c \in TypedInputs : c = [inputs[n] EXCEPT !.place = place]
    BY <1>5
  <2>2. c.at = a
    BY <1>2, <1>3, <2>1 DEF TypedInputs
  <2>3. [c EXCEPT !.at = a] = c
    BY <2>2 DEF TypedInputs
  <2> QED
    BY <1>4, <2>1, <2>3
<1>7. inputs' = [inputs EXCEPT ![n] = b]
  BY <1>6
<1> QED
  BY <1>1, <1>3, <1>4, <1>7, InputMoves

LEMMA CommandEnds ==
    ASSUME CommandBounds, CommandsInv, NEW n, NEW place \in {"answered", "failed"}, NEW note \in Notices,
           Waits(n), inputs' = [inputs EXCEPT ![n].place = place], note.of = n,
           said' = Append(said, note), UNCHANGED <<commandHandlers, typed>>
    PROVE  CommandsInv'
<1>1. Moves(n, place, inputs[n].at) /\ inputs[n].at \in 1..(MaxHandlers + 1)
  BY EndMoves DEF Commands!Places
<1>2. place # "queued" /\ place # "asked" /\ place # "passed" /\ place \in {"answered", "failed"}
  OBVIOUS
<1>3. QueuedOnce' /\ PlainInOrder'
  BY <1>1, <1>2, QueueKeeps
<1>4. AskedAreKnown'
  BY <1>1, <1>2, KnownKeeps
<1>5. PICK len \in Nat : len = Len(said)
  BY LenProperties DEF CommandsInv, CommandsTyped
<1>6. /\ said' \in Seq(Notices) /\ Len(said') = len + 1 /\ said'[len + 1] = note
      /\ \A i \in 1..len : said'[i] = said[i]
  BY <1>5, OneMore DEF CommandsInv, CommandsTyped
<1>7. CommandsTyped'
  BY <1>1, <1>6 DEF CommandsInv, CommandsTyped, Moves
<1>8. \A i \in 1..len : /\ said[i].of \in 1..Len(inputs) /\ said[i].of # n
                         /\ inputs[said[i].of].place \in {"answered", "failed"}
  BY <1>5 DEF CommandsInv, SaidOnce, Waits
<1>9. \A i \in 1..(len + 1) : i = len + 1 \/ i \in 1..len
  OBVIOUS
<1>10. \A i \in 1..(len + 1) : /\ said'[i].of \in 1..Len(inputs')
                                /\ inputs'[said'[i].of].place \in {"answered", "failed"}
  <2> TAKE i \in 1..(len + 1)
  <2>1. CASE i = len + 1
    BY <1>1, <1>2, <1>6, <2>1 DEF Moves, Waits
  <2>2. CASE i \in 1..len
    <3>1. said'[i].of = said[i].of /\ inputs'[said[i].of] = inputs[said[i].of]
      BY <1>1, <1>6, <1>8, <2>2 DEF Moves
    <3> QED
      BY <1>1, <1>8, <2>2, <3>1 DEF Moves
  <2> QED
    BY <1>9, <2>1, <2>2
<1>11. \A i, j \in 1..(len + 1) : i # j => said'[i].of # said'[j].of
  <2>1. \A i \in 1..len : said'[i].of = said[i].of
    BY <1>6
  <2>2. \A i, j \in 1..len : i # j => said[i].of # said[j].of
    BY <1>5 DEF CommandsInv, SaidOnce
  <2> QED
    BY <1>6, <1>8, <1>9, <2>1, <2>2
<1>12. ASSUME NEW m \in 1..Len(inputs'), inputs'[m].place \in {"answered", "failed"}
       PROVE  \E i \in 1..(len + 1) : said'[i].of = m
  <2>1. CASE m = n
    <3>1. len + 1 \in 1..(len + 1) /\ said'[len + 1].of = m
      BY <1>6, <2>1
    <3> QED
      BY <3>1
  <2>2. CASE m # n
    <3>1. m \in 1..Len(inputs) /\ inputs'[m] = inputs[m]
      BY <1>1, <2>2 DEF Moves
    <3>2. PICK i \in 1..len : said[i].of = m
      BY <1>5, <1>12, <3>1 DEF CommandsInv, SaidOnce
    <3>3. i \in 1..(len + 1) /\ said'[i].of = m
      BY <1>6, <3>2
    <3> QED
      BY <3>3
  <2> QED
    BY <2>1, <2>2
<1>13. SaidOnce'
  BY <1>6, <1>10, <1>11, <1>12 DEF SaidOnce
<1> QED
  BY <1>3, <1>4, <1>7, <1>13 DEF CommandsInv

LEMMA CommandQueued ==
    ASSUME CommandBounds, CommandsInv, NEW n, Commands!QueueUnhandled(n)
    PROVE  CommandsInv'
<1>1. Waits(n) /\ inputs[n].place = "passed"
  BY LenProperties DEF Commands!QueueUnhandled, Waits, CommandsInv, CommandsTyped
<1>2. UNCHANGED <<commandHandlers, said>> /\ typed' = Append(typed, n)
      /\ inputs' = [inputs EXCEPT ![n].place = "queued"]
  BY DEF Commands!QueueUnhandled
<1>3. Moves(n, "queued", inputs[n].at) /\ inputs[n].at \in 1..(MaxHandlers + 1)
  BY <1>1, <1>2, EndMoves DEF Commands!Places
<1>4. SaidOnce'
  BY <1>1, <1>2, <1>3, SaidKeeps
<1>5. AskedAreKnown'
  <2>1. inputs[n].at > inputs[n].known
    BY <1>1 DEF CommandsInv, AskedAreKnown, Waits
  <2> QED
    BY <1>1, <1>2, <1>3, <2>1, KnownKeeps
<1>6. PICK len \in Nat : len = Len(typed)
  BY LenProperties DEF CommandsInv, CommandsTyped
<1>7. PICK k \in Nat : k = n
  BY <1>1, LenProperties DEF Waits, CommandsInv, CommandsTyped
<1>8. /\ typed' \in Seq(Nat) /\ Len(typed') = len + 1 /\ typed'[len + 1] = n
      /\ \A i \in 1..len : typed'[i] = typed[i]
  BY <1>2, <1>6, <1>7, OneMore DEF CommandsInv, CommandsTyped
<1>9. CommandsTyped'
  BY <1>2, <1>3, <1>8 DEF CommandsInv, CommandsTyped, Moves
<1>10. \A i \in 1..len : /\ typed[i] \in 1..Len(inputs) /\ typed[i] # n
                        /\ inputs[typed[i]].place = "queued"
  BY <1>1, <1>6 DEF CommandsInv, QueuedOnce
<1>11. \A i \in 1..(len + 1) : i = len + 1 \/ i \in 1..len
  OBVIOUS
<1>12. \A i \in 1..len : typed'[i] = typed[i] /\ inputs'[typed[i]] = inputs[typed[i]]
  BY <1>3, <1>8, <1>10 DEF Moves
<1>13. QueuedOnce'
  <2>1. \A i \in 1..(len + 1) : typed'[i] \in 1..Len(inputs') /\ inputs'[typed'[i]].place = "queued"
    <3> TAKE i \in 1..(len + 1)
    <3>1. CASE i = len + 1
      BY <1>1, <1>3, <1>8, <3>1 DEF Moves, Waits
    <3>2. CASE i \in 1..len
      BY <1>3, <1>10, <1>12, <3>2 DEF Moves
    <3> QED
      BY <1>11, <3>1, <3>2
  <2>2. \A i, j \in 1..(len + 1) : i # j => typed'[i] # typed'[j]
    <3>1. \A i, j \in 1..len : i # j => typed[i] # typed[j]
      BY <1>6 DEF CommandsInv, QueuedOnce
    <3> QED
      BY <1>8, <1>10, <1>11, <1>12, <3>1
  <2>3. ASSUME NEW m \in 1..Len(inputs'), inputs'[m].place = "queued"
        PROVE  \E i \in 1..(len + 1) : typed'[i] = m
    <3>1. CASE m = n
      <4>1. len + 1 \in 1..(len + 1) /\ typed'[len + 1] = m
        BY <1>8, <3>1
      <4> QED
        BY <4>1
    <3>2. CASE m # n
      <4>1. m \in 1..Len(inputs) /\ inputs'[m] = inputs[m]
        BY <1>3, <3>2 DEF Moves
      <4>2. PICK i \in 1..len : typed[i] = m
        BY <1>6, <2>3, <4>1 DEF CommandsInv, QueuedOnce
      <4>3. i \in 1..(len + 1) /\ typed'[i] = m
        BY <1>8, <4>2
      <4> QED
        BY <4>3
    <3> QED
      BY <3>1, <3>2
  <2> QED
    BY <1>8, <2>1, <2>2, <2>3 DEF QueuedOnce
<1>14. PlainInOrder'
  <2>1. inputs'[typed'[len + 1]].name # PlainInput
    <3>1. inputs[n].name \in Names
      BY <1>1 DEF CommandsInv, AskedAreKnown, Waits
    <3> QED
      BY <1>3, <1>8, <3>1 DEF Moves, CommandBounds
  <2>2. \A i, j \in 1..len : i < j /\ inputs[typed[i]].name = PlainInput /\ inputs[typed[j]].name = PlainInput
                               => typed[i] < typed[j]
    BY <1>6 DEF CommandsInv, PlainInOrder
  <2>3. ASSUME NEW i \in 1..(len + 1), NEW j \in 1..(len + 1), i < j,
               inputs'[typed'[i]].name = PlainInput, inputs'[typed'[j]].name = PlainInput
        PROVE  typed'[i] < typed'[j]
    <3>1. i \in 1..len /\ j \in 1..len
      BY <1>11, <2>1, <2>3
    <3> QED
      BY <1>12, <2>2, <2>3, <3>1
  <2> QED
    BY <1>8, <2>3 DEF PlainInOrder
<1> QED
  BY <1>4, <1>5, <1>9, <1>13, <1>14 DEF CommandsInv

-----------------------------------------------------------------------------
\* A new input comes after all others.
LEMMA InputComes ==
    ASSUME CommandBounds, CommandsInv, NEW c \in Names \cup {PlainInput}, NEW place \in {"asked", "passed", "queued"},
           Commands!Typed(c, place), UNCHANGED <<commandHandlers, said>>,
           place = "asked" => c \in Names /\ commandHandlers[c] > 0,
           place = "passed" => c \in Names,
           IF place = "queued" THEN typed' = Append(typed, Len(inputs) + 1) ELSE typed' = typed
    PROVE  CommandsInv'
<1>1. PICK n \in Nat : n = Len(inputs)
  BY LenProperties DEF CommandsInv, CommandsTyped
<1>2. PICK known \in 0..MaxHandlers : known = IF place = "asked" THEN commandHandlers[c] ELSE 0
  BY DEF CommandsInv, CommandsTyped, CommandBounds
<1>3. PICK rec : rec = [name |-> c, place |-> place, at |-> 1, known |-> known]
  OBVIOUS
<1>4. rec \in TypedInputs /\ rec.name = c /\ rec.place = place /\ rec.at = 1 /\ rec.known = known
  BY <1>2, <1>3 DEF TypedInputs, Commands!Places, CommandBounds
<1>5. inputs' = Append(inputs, rec)
  BY <1>2, <1>3 DEF Commands!Typed
<1>6. /\ inputs' \in Seq(TypedInputs) /\ Len(inputs') = n + 1 /\ inputs'[n + 1] = rec
      /\ \A m \in 1..n : inputs'[m] = inputs[m]
  BY <1>1, <1>4, <1>5, OneMore DEF CommandsInv, CommandsTyped
<1>7. \A m \in 1..(n + 1) : m = n + 1 \/ m \in 1..n
  OBVIOUS
<1>8. AskedAreKnown'
  <2> SUFFICES ASSUME NEW m \in 1..(n + 1)
               PROVE  /\ inputs'[m].place \in {"asked", "passed"} => inputs'[m].name \in Names
                      /\ inputs'[m].place = "asked" =>
                            /\ inputs'[m].known <= commandHandlers[inputs'[m].name]
                            /\ inputs'[m].at <= commandHandlers[inputs'[m].name]
                      /\ inputs'[m].place \in {"passed", "queued"} => inputs'[m].at > inputs'[m].known
    BY <1>6 DEF AskedAreKnown
  <2>1. CASE m = n + 1
    <3>1. place = "asked" => known = commandHandlers[c] /\ known <= known /\ 1 <= commandHandlers[c]
      BY <1>2
    <3>2. place # "asked" => known = 0
      BY <1>2
    <3> QED
      BY <1>4, <1>6, <2>1, <3>1, <3>2
  <2>2. CASE m \in 1..n
    BY <1>1, <1>6, <2>2 DEF CommandsInv, AskedAreKnown
  <2> QED
    BY <1>7, <2>1, <2>2
<1>9. \A i \in 1..Len(typed) : /\ typed[i] \in 1..n /\ inputs'[typed[i]] = inputs[typed[i]]
                              /\ inputs[typed[i]].place = "queued"
  BY <1>1, <1>6 DEF CommandsInv, QueuedOnce
<1>10. SaidOnce'
  <2>1. \A i \in 1..Len(said) : /\ said[i].of \in 1..n /\ inputs'[said[i].of] = inputs[said[i].of]
                               /\ inputs[said[i].of].place \in {"answered", "failed"}
    BY <1>1, <1>6 DEF CommandsInv, SaidOnce
  <2>2. \A i \in 1..Len(said) : said[i].of \in 1..(n + 1)
    BY <2>1
  <2>3. ASSUME NEW m \in 1..(n + 1), inputs'[m].place \in {"answered", "failed"}
        PROVE  \E i \in 1..Len(said) : said[i].of = m
    <3>1. m \in 1..n
      BY <1>4, <1>6, <1>7, <2>3
    <3> QED
      BY <1>1, <1>6, <2>3, <3>1 DEF CommandsInv, SaidOnce
  <2>4. \A i, j \in 1..Len(said) : i # j => said[i].of # said[j].of
    BY DEF CommandsInv, SaidOnce
  <2> QED
    BY <1>6, <2>1, <2>2, <2>3, <2>4 DEF SaidOnce
<1>11. CASE place # "queued"
  <2>1. typed' = typed
    BY <1>11
  <2>2. QueuedOnce'
    <3>1. \A i \in 1..Len(typed) : typed[i] \in 1..(n + 1)
      BY <1>9
    <3>2. ASSUME NEW m \in 1..(n + 1), inputs'[m].place = "queued"
          PROVE  \E i \in 1..Len(typed) : typed[i] = m
      <4>1. m \in 1..n
        BY <1>4, <1>6, <1>7, <1>11, <3>2
      <4> QED
        BY <1>1, <1>6, <3>2, <4>1 DEF CommandsInv, QueuedOnce
    <3>3. \A i, j \in 1..Len(typed) : i # j => typed[i] # typed[j]
      BY DEF CommandsInv, QueuedOnce
    <3> QED
      BY <1>6, <1>9, <2>1, <3>1, <3>2, <3>3 DEF QueuedOnce
  <2>3. PlainInOrder'
    BY <1>9, <2>1 DEF CommandsInv, PlainInOrder
  <2>4. CommandsTyped'
    BY <1>6, <2>1 DEF CommandsInv, CommandsTyped
  <2> QED
    BY <1>8, <1>10, <2>2, <2>3, <2>4 DEF CommandsInv
<1>12. CASE place = "queued"
  <2>1. PICK len \in Nat : len = Len(typed)
    BY LenProperties DEF CommandsInv, CommandsTyped
  <2>2. typed' = Append(typed, n + 1) /\ n + 1 \in Nat
    BY <1>1, <1>12
  <2>3. /\ typed' \in Seq(Nat) /\ Len(typed') = len + 1 /\ typed'[len + 1] = n + 1
        /\ \A i \in 1..len : typed'[i] = typed[i]
    BY <2>1, <2>2, OneMore DEF CommandsInv, CommandsTyped
  <2>4. \A i \in 1..(len + 1) : i = len + 1 \/ i \in 1..len
    OBVIOUS
  <2>5. \A i \in 1..len : typed'[i] = typed[i] /\ typed[i] \in 1..n /\ typed[i] < n + 1
                          /\ inputs'[typed[i]] = inputs[typed[i]] /\ inputs[typed[i]].place = "queued"
    BY <1>9, <2>1, <2>3
  <2>6. QueuedOnce'
    <3>1. \A i \in 1..(len + 1) : typed'[i] \in 1..(n + 1) /\ inputs'[typed'[i]].place = "queued"
      <4> TAKE i \in 1..(len + 1)
      <4>1. CASE i = len + 1
        BY <1>4, <1>6, <1>12, <2>3, <4>1
      <4>2. CASE i \in 1..len
        BY <2>5, <4>2
      <4> QED
        BY <2>4, <4>1, <4>2
    <3>2. \A i, j \in 1..(len + 1) : i # j => typed'[i] # typed'[j]
      <4>1. \A i, j \in 1..len : i # j => typed[i] # typed[j]
        BY <2>1 DEF CommandsInv, QueuedOnce
      <4>2. \A i \in 1..len : typed[i] # n + 1
        BY <2>5
      <4> QED
        BY <2>3, <2>4, <4>1, <4>2
    <3>3. ASSUME NEW m \in 1..(n + 1), inputs'[m].place = "queued"
          PROVE  \E i \in 1..(len + 1) : typed'[i] = m
      <4>1. CASE m = n + 1
        <5>1. len + 1 \in 1..(len + 1)
          OBVIOUS
        <5> QED
          BY <2>3, <4>1, <5>1
      <4>2. CASE m \in 1..n
        <5>1. PICK i \in 1..len : typed[i] = m
          BY <1>1, <1>6, <2>1, <3>3, <4>2 DEF CommandsInv, QueuedOnce
        <5>2. i \in 1..(len + 1)
          OBVIOUS
        <5> QED
          BY <2>3, <5>1, <5>2
      <4> QED
        BY <1>7, <4>1, <4>2
    <3> QED
      BY <1>6, <2>3, <3>1, <3>2, <3>3 DEF QueuedOnce
  <2>7. PlainInOrder'
    <3>1. \A i, j \in 1..len : i < j /\ inputs[typed[i]].name = PlainInput /\ inputs[typed[j]].name = PlainInput
                                 => typed[i] < typed[j]
      BY <2>1 DEF CommandsInv, PlainInOrder
    <3>2. ASSUME NEW i \in 1..(len + 1), NEW j \in 1..(len + 1), i < j,
                 inputs'[typed'[i]].name = PlainInput, inputs'[typed'[j]].name = PlainInput
          PROVE  typed'[i] < typed'[j]
      <4>1. i \in 1..len
        BY <3>2
      <4>2. CASE j = len + 1
        BY <2>3, <2>5, <4>1, <4>2
      <4>3. CASE j \in 1..len
        BY <2>5, <3>1, <3>2, <4>1, <4>3
      <4> QED
        BY <2>4, <4>2, <4>3
    <3> QED
      BY <2>3, <3>2 DEF PlainInOrder
  <2>8. CommandsTyped'
    BY <1>6, <2>3 DEF CommandsInv, CommandsTyped
  <2> QED
    BY <1>8, <1>10, <2>6, <2>7, <2>8 DEF CommandsInv
<1> QED
  BY <1>11, <1>12

LEMMA HandlerRegistered ==
    ASSUME CommandBounds, CommandsInv, NEW c \in Names, Commands!Register(c)
    PROVE  CommandsInv'
<1>1. PICK h \in 0..MaxHandlers : h = commandHandlers[c] /\ h < MaxHandlers
  BY DEF Commands!Register, CommandsInv, CommandsTyped
<1>2. commandHandlers' = [commandHandlers EXCEPT ![c] = h + 1] /\ UNCHANGED <<inputs, typed, said>>
  BY <1>1 DEF Commands!Register
<1>3. h + 1 \in 0..MaxHandlers
  BY <1>1 DEF CommandBounds
<1>4. commandHandlers' \in [Names -> 0..MaxHandlers]
  BY <1>2, <1>3 DEF CommandsInv, CommandsTyped
<1>5. AskedAreKnown'
  <2>1. \A d \in Names : commandHandlers[d] \in 0..MaxHandlers /\ commandHandlers'[d] \in 0..MaxHandlers
                         /\ commandHandlers[d] <= commandHandlers'[d]
    BY <1>1, <1>2, <1>3 DEF CommandsInv, CommandsTyped
  <2>2. ASSUME NEW n \in 1..Len(inputs), inputs[n].place = "asked"
        PROVE  /\ inputs[n].known <= commandHandlers'[inputs[n].name]
               /\ inputs[n].at <= commandHandlers'[inputs[n].name]
    <3>1. inputs[n] \in TypedInputs
      BY ElementOfSeq DEF CommandsInv, CommandsTyped
    <3>2. PICK a \in Nat, k \in Nat : a = inputs[n].at /\ k = inputs[n].known
      BY <3>1 DEF TypedInputs
    <3>3. inputs[n].name \in Names /\ k <= commandHandlers[inputs[n].name] /\ a <= commandHandlers[inputs[n].name]
      BY <2>2, <3>2 DEF CommandsInv, AskedAreKnown
    <3>4. PICK x \in Nat, y \in Nat : x = commandHandlers[inputs[n].name] /\ y = commandHandlers'[inputs[n].name] /\ x <= y
      BY <2>1, <3>3
    <3> QED
      BY <3>2, <3>3, <3>4
  <2> QED
    BY <1>2, <2>2 DEF CommandsInv, AskedAreKnown
<1> QED
  BY <1>2, <1>4, <1>5 DEF CommandsInv, CommandsTyped, QueuedOnce, SaidOnce, PlainInOrder

LEMMA CommandsGoOn == CommandBounds /\ CommandsInv /\ [Commands!Next]_Commands!vars => CommandsInv'
<1> SUFFICES ASSUME CommandBounds, CommandsInv, [Commands!Next]_Commands!vars PROVE CommandsInv'
  OBVIOUS
<1>1. CASE Commands!PushPlain
  <2>1. Commands!Typed(PlainInput, "queued") /\ UNCHANGED <<commandHandlers, said>> /\ typed' = Append(typed, Len(inputs) + 1)
    BY <1>1 DEF Commands!PushPlain, Commands!Number
  <2> QED
    BY <2>1, InputComes
<1>2. ASSUME NEW c \in Names, Commands!Register(c) PROVE CommandsInv'
  BY <1>2, HandlerRegistered
<1>3. ASSUME NEW c \in Names, NEW w \in BOOLEAN, Commands!PushCommand(c, w) PROVE CommandsInv'
  <2>1. PICK place \in {"asked", "passed"} : place = IF w /\ commandHandlers[c] > 0 THEN "asked" ELSE "passed"
    OBVIOUS
  <2>2. Commands!Typed(c, place) /\ UNCHANGED <<commandHandlers, said>> /\ typed' = typed
    BY <1>3, <2>1 DEF Commands!PushCommand
  <2>3. place = "asked" => commandHandlers[c] > 0
    BY <2>1
  <2>4. place # "queued"
    OBVIOUS
  <2> QED
    BY <2>2, <2>3, <2>4, InputComes
<1>4. ASSUME NEW n \in DOMAIN inputs, Commands!HandlerPasses(n) PROVE CommandsInv'
  BY <1>4, CommandPasses
<1>5. ASSUME NEW n \in DOMAIN inputs, Commands!HandlerAnswers(n) PROVE CommandsInv'
  <2>1. Waits(n)
    BY <1>5, LenProperties DEF Commands!HandlerAnswers, Commands!Asked, Waits, CommandsInv, CommandsTyped
  <2>2. n \in Nat
    BY <2>1, LenProperties DEF Waits, CommandsInv, CommandsTyped
  <2>3. PICK note \in Notices : note = [of |-> n, kind |-> "answer"]
    BY <2>2 DEF Notices
  <2>4. note.of = n
    BY <2>3
  <2>5. /\ inputs' = [inputs EXCEPT ![n].place = "answered"]
        /\ said' = Append(said, note) /\ UNCHANGED <<commandHandlers, typed>>
    BY <1>5, <2>3 DEF Commands!HandlerAnswers
  <2> QED
    BY <2>1, <2>4, <2>5, CommandEnds
<1>6. ASSUME NEW n \in DOMAIN inputs, Commands!HandlerThrows(n) PROVE CommandsInv'
  <2>1. Waits(n)
    BY <1>6, LenProperties DEF Commands!HandlerThrows, Commands!Asked, Waits, CommandsInv, CommandsTyped
  <2>2. n \in Nat
    BY <2>1, LenProperties DEF Waits, CommandsInv, CommandsTyped
  <2>3. PICK note \in Notices : note = [of |-> n, kind |-> "error"]
    BY <2>2 DEF Notices
  <2>4. note.of = n
    BY <2>3
  <2>5. /\ inputs' = [inputs EXCEPT ![n].place = "failed"]
        /\ said' = Append(said, note) /\ UNCHANGED <<commandHandlers, typed>>
    BY <1>6, <2>3 DEF Commands!HandlerThrows
  <2> QED
    BY <2>1, <2>4, <2>5, CommandEnds
<1>7. ASSUME NEW n \in DOMAIN inputs, Commands!QueueUnhandled(n) PROVE CommandsInv'
  BY <1>7, CommandQueued
<1>8. CASE UNCHANGED Commands!vars
  BY <1>8 DEF Commands!vars, CommandsInv, CommandsTyped, AskedAreKnown, QueuedOnce, SaidOnce, PlainInOrder
<1> QED
  BY <1>1, <1>2, <1>3, <1>4, <1>5, <1>6, <1>7, <1>8 DEF Commands!Next

LEMMA CommandsEnd == CommandBounds /\ CommandsInv => Commands!TypeOK /\ Commands!InputsEndOnce
<1> SUFFICES ASSUME CommandBounds, CommandsInv PROVE Commands!TypeOK /\ Commands!InputsEndOnce
  OBVIOUS
<1>1. /\ DOMAIN inputs = 1..Len(inputs) /\ DOMAIN typed = 1..Len(typed)
      /\ DOMAIN said = 1..Len(said)
  BY LenProperties DEF CommandsInv, CommandsTyped
<1>2. \A n \in 1..Len(inputs) : inputs[n] \in TypedInputs
  BY ElementOfSeq DEF CommandsInv, CommandsTyped
<1>3. Commands!TypeOK
  <2>1. \A n \in 1..Len(inputs) : /\ inputs[n].name \in Names \cup {PlainInput}
                                 /\ inputs[n].place \in Commands!Places
                                 /\ inputs[n].at \in 1 .. MaxHandlers + 1
    BY <1>2 DEF TypedInputs
  <2> QED
    BY <1>1, <2>1 DEF Commands!TypeOK, CommandsInv, CommandsTyped, QueuedOnce, SaidOnce
<1>4. Commands!EndsOnce
  <2> SUFFICES ASSUME NEW n \in 1..Len(inputs)
               PROVE  Commands!Times(n, typed) + Cardinality({i \in DOMAIN said : said[i].of = n})
                        = IF inputs[n].place \in {"asked", "passed"} THEN 0 ELSE 1
    BY <1>1, SameCounts DEF Commands!EndsOnce
  <2>1. inputs[n].place \in Commands!Places
    BY <1>2 DEF TypedInputs
  <2>2. Commands!Times(n, typed) = IF inputs[n].place = "queued" THEN 1 ELSE 0
    <3>1. (\E i \in 1..Len(typed) : typed[i] = n) <=> inputs[n].place = "queued"
      BY DEF CommandsInv, QueuedOnce
    <3>2. CASE inputs[n].place = "queued"
      <4>1. PICK i \in 1..Len(typed) : typed[i] = n
        BY <3>1, <3>2
      <4>2. {j \in DOMAIN typed : typed[j] = n} = {i}
        BY <1>1, <4>1 DEF CommandsInv, QueuedOnce
      <4> QED
        BY <3>2, <4>2, FS_Singleton, SameCounts DEF Commands!Times
    <3>3. CASE inputs[n].place # "queued"
      <4>1. {j \in DOMAIN typed : typed[j] = n} = {}
        BY <1>1, <3>1, <3>3
      <4> QED
        BY <3>3, <4>1, FS_EmptySet, SameCounts DEF Commands!Times
    <3> QED
      BY <3>2, <3>3
  <2>3. Cardinality({i \in DOMAIN said : said[i].of = n})
          = IF inputs[n].place \in {"answered", "failed"} THEN 1 ELSE 0
    <3>1. (\E i \in 1..Len(said) : said[i].of = n) <=> inputs[n].place \in {"answered", "failed"}
      BY DEF CommandsInv, SaidOnce
    <3>2. CASE inputs[n].place \in {"answered", "failed"}
      <4>1. PICK i \in 1..Len(said) : said[i].of = n
        BY <3>1, <3>2
      <4>2. {j \in DOMAIN said : said[j].of = n} = {i}
        BY <1>1, <4>1 DEF CommandsInv, SaidOnce
      <4> QED
        BY <3>2, <4>2, FS_Singleton
    <3>3. CASE inputs[n].place \notin {"answered", "failed"}
      <4>1. {j \in DOMAIN said : said[j].of = n} = {}
        BY <1>1, <3>1, <3>3
      <4> QED
        BY <3>3, <4>1, FS_EmptySet
    <3> QED
      BY <3>2, <3>3
  <2> QED
    BY <2>1, <2>2, <2>3 DEF Commands!Places
<1>5. Commands!PlainStayInOrder
  BY <1>1 DEF Commands!PlainStayInOrder, CommandsInv, PlainInOrder
<1>6. Commands!AllWereAsked
  BY <1>1 DEF Commands!AllWereAsked, CommandsInv, AskedAreKnown
<1> QED
  BY <1>3, <1>4, <1>5, <1>6 DEF Commands!InputsEndOnce

\* An input ends once: in the queue, with an answer or with an error; plain ones keep
\* their order and a command is queued only when all its handlers passed (pushInput of
\* agent-core.ts, command-registry.ts), however many names, handlers and inputs there are.
THEOREM CommandsEndOnce ==
    ASSUME CommandBounds
    PROVE  Commands!Spec => [](Commands!TypeOK /\ Commands!InputsEndOnce)
<1>1. Commands!Init => CommandsInv
  <2> SUFFICES ASSUME Commands!Init PROVE CommandsInv
    OBVIOUS
  <2>1. Len(inputs) = 0 /\ Len(typed) = 0 /\ Len(said) = 0
    BY DEF Commands!Init
  <2>2. 1..0 = {}
    OBVIOUS
  <2>3. CommandsTyped
    BY DEF Commands!Init, CommandsTyped, CommandBounds
  <2> QED
    BY <2>1, <2>2, <2>3 DEF CommandsInv, AskedAreKnown, QueuedOnce, SaidOnce, PlainInOrder
<1> QED
  BY <1>1, CommandsGoOn, CommandsEnd, PTL DEF Commands!Spec


-----------------------------------------------------------------------------
(* Gears and emergencies (mano-aggregator.ts, vedana-emergency.ts). *)

GearBounds ==
    /\ SustainedTicks \in Nat \ {0} /\ CooldownTicks \in Nat /\ MaxHistory \in Nat
    /\ DefaultGear \in Gears /\ MaxCycles \in [Gears -> Nat \ {0}]

Felt == [dukkha : BOOLEAN, boosted : BOOLEAN]

\* A route under way was begun with no gear forced.
RouteIsOrderly ==
    /\ \/ route = Gear!NoRoute
       \/ \E left, late, base : route = [stage |-> "chain", left |-> left, late |-> late, base |-> base]
       \/ route.stage = "audit" /\ route.gear \in Gears
    /\ route.stage # "idle" => forcedGear = {}

\* The watchdog's counts are those of the decisions, and a gear at its limit is left next.
CyclesAreUses ==
    /\ cycles = uses /\ uses \in [Gears -> Nat] /\ forcedGear \subseteq {DefaultGear}
    /\ \A g \in Gears \ {DefaultGear} :
          /\ uses[g] <= MaxCycles[g]
          /\ uses[g] = MaxCycles[g] => forcedGear = {DefaultGear}

\* The evaluated routes, counted backwards from the last.
Back(d) == lately[Len(lately) - d]
Since == 0..(Len(lately) - 1)

\* Within a cooldown the boost lies as far back as it lasted ...
CoolingDown ==
    /\ emergency.ticks = 0 /\ CooldownTicks - emergency.cooldown < Len(lately)
    /\ \A d \in Since : Back(d).boosted <=> d = CooldownTicks - emergency.cooldown

\* ... and otherwise the ticks are the dukkha felt since, after the cooldown of the last.
CountingTicks ==
    /\ emergency.ticks <= Len(lately)
    /\ \A d \in Since : d < emergency.ticks => Back(d).dukkha
    /\ \A d \in Since : Back(d).boosted => d >= CooldownTicks + emergency.ticks
    /\ \/ emergency.ticks = Len(lately)
       \/ emergency.ticks < Len(lately) /\ ~Back(emergency.ticks).dukkha
       \/ /\ CooldownTicks + emergency.ticks < Len(lately)
          /\ Back(CooldownTicks + emergency.ticks).boosted

\* What EmergencyIsExact says of the last evaluated route.
BoostedRightly ==
    Len(lately) > 0 =>
      (Back(0).boosted <=> /\ Len(lately) >= SustainedTicks
                           /\ \A d \in 0..(SustainedTicks - 1) : Back(d).dukkha
                           /\ \A d \in Since : d > 0 => ~Back(d).boosted)

EmergencyInv ==
    /\ emergency \in [ticks : 0..(SustainedTicks - 1), cooldown : 0..CooldownTicks]
    /\ lately \in Seq(Felt) /\ Len(lately) <= SustainedTicks + CooldownTicks
    /\ emergency.cooldown > 0 => CoolingDown
    /\ emergency.cooldown = 0 => CountingTicks
    /\ BoostedRightly

GearInv ==
    /\ RouteIsOrderly /\ CyclesAreUses /\ EmergencyInv
    /\ historicalBuffer \in Seq(Confidences) /\ Len(historicalBuffer) <= MaxHistory
    /\ extras \subseteq ExtraKeys /\ decided.gear \in Gears

-----------------------------------------------------------------------------
\* What Kept keeps, counted backwards.
KeptSo(t, S, s, x, m, n) ==
    /\ t \in Seq(S) /\ Len(t) = (IF n < m THEN n + 1 ELSE m)
    /\ m > 0 => t[Len(t)] = x
    /\ \A d \in 1..(Len(t) - 1) : t[Len(t) - d] = s[n - (d - 1)]

LEMMA KeptBack ==
    ASSUME NEW S, NEW s \in Seq(S), NEW x \in S, NEW m \in Nat, NEW n \in Nat, n = Len(s), n <= m,
           NEW t, t = Gear!Kept(s, x, m)
    PROVE  KeptSo(t, S, s, x, m, n)
<1>1. PICK a : a = Append(s, x)
  OBVIOUS
<1>2. /\ a \in Seq(S) /\ Len(a) = n + 1 /\ a[n + 1] = x
      /\ \A i \in 1..n : a[i] = s[i]
  BY <1>1, AppendProperties
<1>3. t = IF Len(a) > m THEN SubSeq(a, Len(a) - m + 1, Len(a)) ELSE a
  BY <1>1 DEF Gear!Kept
<1>4. CASE n < m
  <2>1. t = a /\ Len(t) = n + 1
    BY <1>2, <1>3, <1>4
  <2>2. \A d \in 1..n : n + 1 - d \in 1..n /\ n + 1 - d = n - (d - 1)
    OBVIOUS
  <2>3. \A d \in 1..n : t[n + 1 - d] = s[n - (d - 1)]
    BY <1>2, <2>1, <2>2
  <2> QED
    BY <1>2, <1>4, <2>1, <2>3 DEF KeptSo
<1>5. CASE n = m
  <2>1. t = SubSeq(a, 2, m + 1)
    BY <1>2, <1>3, <1>5
  <2>2. PICK b \in 1..(Len(a) + 1) : b = 2
    BY <1>2, <1>5
  <2>8. PICK c \in (b - 1)..Len(a) : c = m + 1
    BY <1>2, <1>5, <2>2
  <2>3. /\ SubSeq(a, b, c) \in Seq(S)
        /\ Len(SubSeq(a, b, c)) = IF b <= c THEN c - b + 1 ELSE 0
        /\ \A i \in 1..(c - b + 1) : SubSeq(a, b, c)[i] = a[b + i - 1]
    BY <1>2, SubSeqProperties
  <2>4. t \in Seq(S) /\ Len(t) = m /\ \A i \in 1..m : t[i] = a[i + 1]
    <3>1. c - b + 1 = m /\ \A i \in 1..m : b + i - 1 = i + 1
      BY <2>2, <2>8
    <3>2. (IF b <= c THEN c - b + 1 ELSE 0) = m
      BY <2>2, <2>8
    <3> QED
      BY <2>1, <2>2, <2>8, <2>3, <3>1, <3>2
  <2>5. \A d \in 1..(m - 1) : /\ m - d \in 1..m /\ m - d + 1 \in 1..n
                              /\ m - d + 1 = n - (d - 1)
    BY <1>5
  <2>6. \A d \in 1..(m - 1) : t[m - d] = s[n - (d - 1)]
    BY <1>2, <2>4, <2>5
  <2>7. m > 0 => t[m] = x
    BY <1>2, <1>5, <2>4
  <2> QED
    BY <1>5, <2>4, <2>6, <2>7 DEF KeptSo
<1> QED
  BY <1>4, <1>5

\* One more evaluated route: every other lies one further back.
RouteMoves(n, k, x) ==
    /\ lately' \in Seq(Felt) /\ Len(lately') = k /\ k > 0
    /\ k = (IF n < SustainedTicks + CooldownTicks THEN n + 1 ELSE n)
    /\ Back(0)' = x
    /\ \A d \in 1..(k - 1) : Back(d)' = Back(d - 1)

LEMMA RouteEvaluated ==
    ASSUME GearBounds, EmergencyInv, NEW x \in Felt, NEW n \in Nat, n = Len(lately),
           lately' = Gear!Kept(lately, x, SustainedTicks + CooldownTicks)
    PROVE  \E k \in Nat : RouteMoves(n, k, x)
<1>1. PICK m \in Nat : m = SustainedTicks + CooldownTicks /\ m > 0
  BY DEF GearBounds
<1>2. lately \in Seq(Felt) /\ n <= m
  BY <1>1 DEF EmergencyInv
<1>3. PICK t : t = Gear!Kept(lately, x, m)
  OBVIOUS
<1>4. PICK k \in Nat : k = (IF n < m THEN n + 1 ELSE m)
  OBVIOUS
<1>5. /\ t \in Seq(Felt) /\ Len(t) = k /\ t[k] = x
      /\ \A d \in 1..(k - 1) : t[k - d] = lately[n - (d - 1)]
  <2>1. PICK s \in Seq(Felt) : s = lately
    BY <1>2
  <2>2. n = Len(s) /\ t = Gear!Kept(s, x, m)
    BY <1>3, <2>1
  <2>3. /\ t \in Seq(Felt) /\ Len(t) = (IF n < m THEN n + 1 ELSE m)
        /\ m > 0 => t[Len(t)] = x
        /\ \A d \in 1..(Len(t) - 1) : t[Len(t) - d] = s[n - (d - 1)]
    <3>1. KeptSo(t, Felt, s, x, m, n)
      BY <1>2, <2>2, KeptBack
    <3> QED
      BY <3>1 DEF KeptSo
  <2> QED
    BY <1>1, <1>4, <2>1, <2>3
<1>6. lately' = t
  BY <1>1, <1>3
<1>7. k > 0 /\ k = (IF n < m THEN n + 1 ELSE n)
  BY <1>1, <1>2, <1>4
<1>8. Back(0)' = x /\ \A d \in 1..(k - 1) : Back(d)' = Back(d - 1)
  <2>1. k - 0 = k
    OBVIOUS
  <2> QED
    BY <1>5, <1>6, <2>1 DEF Back
<1> QED
  BY <1>1, <1>5, <1>6, <1>7, <1>8 DEF RouteMoves

LEMMA EmergencyGoesOn ==
    ASSUME GearBounds, EmergencyInv, NEW dukkha \in BOOLEAN, emergency' = Gear!Calmed(dukkha),
           lately' = Gear!Kept(lately, [dukkha |-> dukkha, boosted |-> Gear!Boosted(dukkha)],
                          SustainedTicks + CooldownTicks)
    PROVE  EmergencyInv'
<1>1. PICK S \in Nat : S = SustainedTicks /\ S > 0
  BY DEF GearBounds
<1>2. PICK C \in Nat : C = CooldownTicks
  BY DEF GearBounds
<1>3. PICK n \in Nat : n = Len(lately)
  BY LenProperties DEF EmergencyInv
<1>4. PICK t \in 0..(S - 1) : t = emergency.ticks
  BY <1>1 DEF EmergencyInv
<1>5. PICK c \in 0..C : c = emergency.cooldown
  BY <1>2 DEF EmergencyInv
<1>6. PICK boosted \in BOOLEAN : boosted <=> c = 0 /\ dukkha /\ t + 1 >= S
  OBVIOUS
<1>7. Gear!Boosted(dukkha) = boosted
  BY <1>1, <1>4, <1>5, <1>6 DEF Gear!Boosted, Gear!Sustained
<1>8. PICK x \in Felt : x = [dukkha |-> dukkha, boosted |-> boosted]
  BY DEF Felt
<1>9. (x.dukkha <=> dukkha) /\ (x.boosted <=> boosted)
  BY <1>8
<1>10. lately' = Gear!Kept(lately, x, SustainedTicks + CooldownTicks)
  BY <1>7, <1>8
<1>11. PICK k \in Nat : RouteMoves(n, k, x)
  BY <1>3, <1>10, RouteEvaluated
<1>12. /\ k > 0 /\ k = (IF n < S + C THEN n + 1 ELSE n) /\ n <= S + C /\ Len(lately') = k
       /\ Back(0)' = x /\ \A d \in 1..(k - 1) : Back(d)' = Back(d - 1)
       /\ lately' \in Seq(Felt)
  BY <1>1, <1>2, <1>3, <1>11 DEF RouteMoves, EmergencyInv
<1>13. PICK u \in Nat : u = IF c > 0 THEN 0 ELSE IF boosted THEN 0 ELSE IF dukkha THEN t + 1 ELSE 0
  OBVIOUS
<1>14. PICK v \in Nat : v = IF c > 0 THEN c - 1 ELSE IF boosted THEN C ELSE 0
  OBVIOUS
<1>15. emergency' = [ticks |-> u, cooldown |-> v]
  BY <1>1, <1>2, <1>4, <1>5, <1>6, <1>13, <1>14 DEF Gear!Calmed, Gear!Sustained
<1>16. emergency'.ticks = u /\ emergency'.cooldown = v
  BY <1>15
<1>17. u \in 0..(S - 1) /\ v \in 0..C
  BY <1>1, <1>6, <1>13, <1>14
<1>18. emergency' \in [ticks : 0..(SustainedTicks - 1), cooldown : 0..CooldownTicks]
  BY <1>1, <1>2, <1>15, <1>17
<1>19. k <= S + C /\ k <= n + 1
  BY <1>12
<1>20. \A d \in 0..(k - 1) : d = 0 \/ d \in 1..(k - 1)
  OBVIOUS
<1>21. \A d \in 1..(k - 1) : d - 1 \in 0..(n - 1)
  BY <1>19
<1>22. CASE c > 0
  <2>1. /\ t = 0 /\ C - c < n
        /\ \A d \in 0..(n - 1) : Back(d).boosted <=> d = C - c
    BY <1>2, <1>3, <1>4, <1>5, <1>22 DEF EmergencyInv, CoolingDown, Since
  <2>2. u = 0 /\ v = c - 1 /\ ~boosted
    BY <1>6, <1>13, <1>14, <1>22
  <2>3. \A d \in 0..(k - 1) : Back(d)'.boosted <=> d = C - v
    <3> TAKE d \in 0..(k - 1)
    <3>1. CASE d = 0
      <4>1. C - v # 0
        BY <1>22, <2>2
      <4> QED
        BY <1>9, <1>12, <2>2, <3>1, <4>1
    <3>2. CASE d \in 1..(k - 1)
      <4>1. Back(d)' = Back(d - 1) /\ d - 1 \in 0..(n - 1)
        BY <1>12, <1>21, <3>2
      <4>2. d - 1 = C - c <=> d = C - v
        BY <2>2
      <4> QED
        BY <2>1, <4>1, <4>2
    <3> QED
      BY <1>20, <3>1, <3>2
  <2>4. C - v < k
    BY <1>1, <1>12, <1>22, <2>1, <2>2
  <2>5. v > 0 => CoolingDown'
    BY <1>2, <1>12, <1>16, <2>2, <2>3, <2>4 DEF CoolingDown, Since
  <2>6. v = 0 => CountingTicks'
    <3> HAVE v = 0
    <3>1. C \in 0..(k - 1) /\ Back(C)'.boosted
      BY <2>3, <2>4
    <3>2. \A d \in 0..(k - 1) : Back(d)'.boosted => d >= C + 0
      BY <2>3
    <3>3. C + 0 = C /\ C < k /\ 0 <= k
      BY <3>1
    <3> QED
      BY <1>2, <1>12, <1>16, <2>2, <3>1, <3>2, <3>3 DEF CountingTicks, Since
  <2>7. BoostedRightly'
    <3>1. C - v \in 0..(k - 1) /\ C - v > 0 /\ Back(C - v)'.boosted
      BY <1>5, <1>22, <2>2, <2>3, <2>4
    <3>2. ~Back(0)'.boosted
      BY <1>9, <1>12, <2>2
    <3>3. ~(\A d \in 0..(k - 1) : d > 0 => ~Back(d)'.boosted)
      BY <3>1
    <3> QED
      BY <1>12, <3>2, <3>3 DEF BoostedRightly, Since
  <2> QED
    BY <1>1, <1>2, <1>12, <1>16, <1>18, <1>19, <2>5, <2>6, <2>7 DEF EmergencyInv
<1>23. CASE c = 0 /\ ~boosted
  <2>1. /\ t <= n
        /\ \A d \in 0..(n - 1) : d < t => Back(d).dukkha
        /\ \A d \in 0..(n - 1) : Back(d).boosted => d >= C + t
        /\ \/ t = n
           \/ t < n /\ ~Back(t).dukkha
           \/ C + t < n /\ Back(C + t).boosted
    BY <1>2, <1>3, <1>4, <1>5, <1>23 DEF EmergencyInv, CountingTicks, Since
  <2>2. v = 0 /\ u = IF dukkha THEN t + 1 ELSE 0
    BY <1>13, <1>14, <1>23
  <2>3. ~Back(0)'.boosted /\ (Back(0)'.dukkha <=> dukkha)
    BY <1>9, <1>12, <1>23
  <2>4. \A d \in 0..(k - 1) : Back(d)'.boosted => d >= C + u
    <3> TAKE d \in 0..(k - 1)
    <3>1. CASE d = 0
      BY <2>3, <3>1
    <3>2. CASE d \in 1..(k - 1)
      <4>1. Back(d)' = Back(d - 1) /\ d - 1 \in 0..(n - 1)
        BY <1>12, <1>21, <3>2
      <4>2. Back(d - 1).boosted => d - 1 >= C + t
        BY <2>1, <4>1
      <4>3. d - 1 >= C + t => d >= C + u
        BY <2>2
      <4> QED
        BY <4>1, <4>2, <4>3
    <3> QED
      BY <1>20, <3>1, <3>2
  <2>5. CASE dukkha
    <3>1. u = t + 1 /\ u <= k /\ u < S
      BY <1>1, <1>6, <1>12, <1>23, <2>1, <2>2, <2>5
    <3>2. \A d \in 0..(k - 1) : d < u => Back(d)'.dukkha
      <4> TAKE d \in 0..(k - 1)
      <4>1. CASE d = 0
        BY <2>3, <2>5, <4>1
      <4>2. CASE d \in 1..(k - 1)
        <5>1. Back(d)' = Back(d - 1) /\ d - 1 \in 0..(n - 1) /\ (d < u => d - 1 < t)
          BY <1>12, <1>21, <3>1, <4>2
        <5> QED
          BY <2>1, <5>1
      <4> QED
        BY <1>20, <4>1, <4>2
    <3>3. \/ u = k
          \/ u < k /\ ~Back(u)'.dukkha
          \/ C + u < k /\ Back(C + u)'.boosted
      <4>1. CASE t = n
        BY <1>12, <3>1, <4>1
      <4>2. CASE t < n /\ ~Back(t).dukkha
        <5>1. u < k /\ u \in 1..(k - 1) /\ u - 1 = t
          BY <1>12, <3>1, <4>2
        <5> QED
          BY <1>12, <4>2, <5>1
      <4>3. CASE C + t < n /\ Back(C + t).boosted
        <5>1. C + u < k /\ C + u \in 1..(k - 1) /\ C + u - 1 = C + t
          BY <1>12, <3>1, <4>3
        <5> QED
          BY <1>12, <4>3, <5>1
      <4> QED
        BY <2>1, <4>1, <4>2, <4>3
    <3>4. CountingTicks'
      BY <1>2, <1>12, <1>16, <2>4, <3>1, <3>2, <3>3 DEF CountingTicks, Since
    <3>5. ~(/\ k >= S /\ \A d \in 0..(S - 1) : Back(d)'.dukkha
            /\ \A d \in 0..(k - 1) : d > 0 => ~Back(d)'.boosted)
      <4>1. CASE u = k
        BY <3>1, <4>1
      <4>2. CASE ~Back(u)'.dukkha
        <5>1. u \in 0..(S - 1)
          BY <3>1
        <5> QED
          BY <4>2, <5>1
      <4>3. CASE C + u < k /\ Back(C + u)'.boosted
        <5>1. C + u \in 0..(k - 1) /\ C + u > 0
          BY <3>1, <4>3
        <5> QED
          BY <4>3, <5>1
      <4> QED
        BY <3>3, <4>1, <4>2, <4>3
    <3>6. BoostedRightly'
      BY <1>1, <1>12, <2>3, <3>5 DEF BoostedRightly, Since
    <3> QED
      BY <1>1, <1>2, <1>12, <1>16, <1>18, <1>19, <2>2, <3>4, <3>6 DEF EmergencyInv
  <2>6. CASE ~dukkha
    <3>1. u = 0 /\ 0 <= k /\ C + u = C
      BY <2>2, <2>6
    <3>2. \A d \in 0..(k - 1) : ~(d < 0)
      OBVIOUS
    <3>3. CountingTicks'
      BY <1>2, <1>12, <1>16, <2>3, <2>4, <2>6, <3>1, <3>2 DEF CountingTicks, Since
    <3>4. 0 \in 0..(S - 1)
      BY <1>1
    <3>5. BoostedRightly'
      BY <1>1, <1>12, <2>3, <2>6, <3>4 DEF BoostedRightly, Since
    <3> QED
      BY <1>1, <1>2, <1>12, <1>16, <1>18, <1>19, <2>2, <3>3, <3>5 DEF EmergencyInv
  <2> QED
    BY <2>5, <2>6
<1>24. CASE boosted
  <2>1. c = 0 /\ dukkha /\ t = S - 1
    BY <1>1, <1>6, <1>24
  <2>2. /\ t <= n
        /\ \A d \in 0..(n - 1) : d < t => Back(d).dukkha
        /\ \A d \in 0..(n - 1) : Back(d).boosted => d >= C + t
    BY <1>2, <1>3, <1>4, <1>5, <2>1 DEF EmergencyInv, CountingTicks, Since
  <2>3. u = 0 /\ v = C
    BY <1>13, <1>14, <1>24, <2>1
  <2>4. Back(0)'.boosted /\ Back(0)'.dukkha
    BY <1>9, <1>12, <1>24, <2>1
  <2>5. \A d \in 1..(k - 1) : ~Back(d)'.boosted
    <3> TAKE d \in 1..(k - 1)
    <3>1. Back(d)' = Back(d - 1) /\ d - 1 \in 0..(n - 1)
      BY <1>12, <1>21
    <3>2. ~(d - 1 >= C + t)
      BY <1>19, <2>1
    <3> QED
      BY <2>2, <3>1, <3>2
  <2>6. k >= S
    BY <1>12, <2>1, <2>2
  <2>7. \A d \in 0..(S - 1) : Back(d)'.dukkha
    <3> TAKE d \in 0..(S - 1)
    <3>1. CASE d = 0
      BY <2>4, <3>1
    <3>2. CASE d \in 1..(S - 1)
      <4>1. d \in 1..(k - 1) /\ d - 1 \in 0..(n - 1) /\ d - 1 < t
        BY <1>21, <2>1, <2>6, <3>2
      <4> QED
        BY <1>12, <2>2, <4>1
    <3> QED
      BY <3>1, <3>2
  <2>8. BoostedRightly'
    <3>1. \A d \in 0..(k - 1) : d > 0 => ~Back(d)'.boosted
      BY <1>20, <2>5
    <3> QED
      BY <1>1, <1>12, <2>4, <2>6, <2>7, <3>1 DEF BoostedRightly, Since
  <2>9. v > 0 => CoolingDown'
    <3>1. C - v = 0 /\ 0 < k
      BY <1>12, <2>3
    <3>2. \A d \in 0..(k - 1) : Back(d)'.boosted <=> d = C - v
      BY <1>20, <2>4, <2>5, <3>1
    <3> QED
      BY <1>2, <1>12, <1>16, <2>3, <3>1, <3>2 DEF CoolingDown, Since
  <2>10. v = 0 => CountingTicks'
    <3> HAVE v = 0
    <3>1. C = 0 /\ C + 0 = 0
      BY <2>3
    <3>2. \A d \in 0..(k - 1) : ~(d < 0) /\ d >= 0
      OBVIOUS
    <3> QED
      BY <1>2, <1>12, <1>16, <2>3, <2>4, <3>1, <3>2 DEF CountingTicks, Since
  <2> QED
    BY <1>1, <1>2, <1>12, <1>16, <1>18, <1>19, <2>8, <2>9, <2>10 DEF EmergencyInv
<1> QED
  BY <1>22, <1>23, <1>24

\* A gear is announced while none is forced, or when it was and is no more.
LEMMA GearAnnounced ==
    ASSUME GearBounds, CyclesAreUses, NEW gear \in Gears, NEW overlong \in BOOLEAN,
           forcedGear = {} \/ gear = DefaultGear, NEW left \in {{}, forcedGear},
           left = forcedGear \/ gear = DefaultGear, Gear!Announced(gear, left, overlong)
    PROVE  CyclesAreUses'
<1>1. CASE gear = DefaultGear
  <2>1. cycles' = Gear!NoUses /\ uses' = Gear!NoUses /\ forcedGear' = left
    BY <1>1 DEF Gear!Announced
  <2>2. uses' \in [Gears -> Nat] /\ \A g \in Gears : uses'[g] = 0
    BY <2>1 DEF Gear!NoUses
  <2>3. \A g \in Gears : MaxCycles[g] \in Nat /\ 0 < MaxCycles[g]
    BY DEF GearBounds
  <2> QED
    BY <2>1, <2>2, <2>3 DEF CyclesAreUses
<1>2. CASE gear # DefaultGear
  <2>1. PICK u \in Nat : u = uses[gear] /\ u = cycles[gear]
    BY DEF CyclesAreUses
  <2>2. PICK m \in Nat : m = MaxCycles[gear] /\ m > 0
    BY DEF GearBounds
  <2>3. u < m
    <3>1. forcedGear = {} /\ forcedGear # {DefaultGear}
      BY <1>2
    <3> QED
      BY <1>2, <2>1, <2>2, <3>1 DEF CyclesAreUses
  <2>4. cycles' = [cycles EXCEPT ![gear] = u + 1] /\ uses' = [uses EXCEPT ![gear] = u + 1]
    BY <1>2, <2>1 DEF Gear!Announced
  <2>5. forcedGear' = IF Gear!Stalled(gear, overlong) THEN {DefaultGear} ELSE {}
    BY <1>2 DEF Gear!Announced
  <2>6. u + 1 = m => Gear!Stalled(gear, overlong)
    BY <2>1, <2>2 DEF Gear!Stalled
  <2>7. cycles' = uses' /\ uses' \in [Gears -> Nat]
    BY <2>4 DEF CyclesAreUses
  <2>8. forcedGear' \subseteq {DefaultGear}
    BY <2>5
  <2>9. ASSUME NEW g \in Gears \ {DefaultGear}
        PROVE  /\ uses'[g] <= MaxCycles[g]
               /\ uses'[g] = MaxCycles[g] => forcedGear' = {DefaultGear}
    <3>1. CASE g = gear
      <4>1. uses'[g] = u + 1
        BY <2>4, <3>1 DEF CyclesAreUses
      <4> QED
        BY <2>2, <2>3, <2>5, <2>6, <3>1, <4>1
    <3>2. CASE g # gear
      <4>1. uses'[g] = uses[g]
        BY <2>4, <3>2 DEF CyclesAreUses
      <4>2. forcedGear # {DefaultGear}
        BY <1>2
      <4> QED
        BY <4>1, <4>2 DEF CyclesAreUses
    <3> QED
      BY <3>1, <3>2
  <2> QED
    BY <2>7, <2>8, <2>9 DEF CyclesAreUses
<1> QED
  BY <1>1, <1>2

\* A route goes on to its next arbiter.
LEMMA RouteGoesOn ==
    ASSUME RouteIsOrderly, route.stage = "chain", UNCHANGED forcedGear,
           \E late \in BOOLEAN : route' = [route EXCEPT !.left = @ - 1, !.late = late]
    PROVE  RouteIsOrderly'
<1>1. PICK left, late, base : route = [stage |-> "chain", left |-> left, late |-> late, base |-> base]
  <2>1. route # Gear!NoRoute /\ ~(route.stage = "audit")
    BY DEF Gear!NoRoute
  <2> QED
    BY <2>1 DEF RouteIsOrderly
<1>2. PICK past \in BOOLEAN : route' = [route EXCEPT !.left = @ - 1, !.late = past]
  OBVIOUS
<1>3. route' = [stage |-> "chain", left |-> left - 1, late |-> past, base |-> base]
  BY <1>1, <1>2
<1>4. route'.stage = "chain" /\ forcedGear = {}
  BY <1>3 DEF RouteIsOrderly
<1> QED
  BY <1>3, <1>4 DEF RouteIsOrderly

LEMMA GearsGoOn == GearBounds /\ GearInv /\ [Gear!Next]_Gear!vars => GearInv'
<1> SUFFICES ASSUME GearBounds, GearInv, [Gear!Next]_Gear!vars PROVE GearInv'
  OBVIOUS
<1> USE DEF GearInv
<1>1. UNCHANGED <<emergency, lately>> => EmergencyInv'
  BY DEF EmergencyInv, CoolingDown, CountingTicks, BoostedRightly, Since, Back
<1>2. Gear!NoRoute.stage = "idle" /\ Gear!Undecided.gear = DefaultGear
  BY DEF Gear!NoRoute, Gear!Undecided
<1>3. CASE Gear!RouteForced
  <2>1. PICK gear \in forcedGear : /\ Gear!Announced(gear, {}, FALSE)
                                  /\ decided' = [Gear!Undecided EXCEPT !.gear = gear, !.confidence = 100]
    BY <1>3 DEF Gear!RouteForced
  <2>2. gear = DefaultGear /\ gear \in Gears
    BY DEF CyclesAreUses, GearBounds
  <2>3. CyclesAreUses'
    BY <2>1, <2>2, GearAnnounced
  <2>4. decided'.gear \in Gears
    BY <2>1, <2>2 DEF Gear!Undecided
  <2>5. route.stage = "idle" /\ route' = route /\ extras' = {} /\ forcedGear' = {}
    BY <1>3, <2>1, <2>2 DEF Gear!RouteForced, Gear!Begins, Gear!Announced
  <2>6. UNCHANGED <<emergency, lately, historicalBuffer>>
    BY <1>3 DEF Gear!RouteForced
  <2> QED
    BY <1>1, <2>3, <2>4, <2>5, <2>6 DEF RouteIsOrderly
<1>4. CASE Gear!RouteUnarbitrated
  <2>1. /\ UNCHANGED <<forcedGear, emergency, historicalBuffer, cycles, route, lately, uses>>
        /\ extras' = {} /\ decided' = Gear!Undecided
    BY <1>4 DEF Gear!RouteUnarbitrated, Gear!Begins, Gear!DecidesDefault
  <2> QED
    BY <1>1, <1>2, <2>1 DEF RouteIsOrderly, CyclesAreUses, GearBounds
<1>5. CASE Gear!RouteArbitrated
  <2>1. forcedGear = {} /\ extras' = {}
        /\ UNCHANGED <<forcedGear, historicalBuffer, cycles, uses, decided>>
    BY <1>5 DEF Gear!RouteArbitrated, Gear!Begins
  <2>2. PICK n \in 1..MaxArbiters, dukkha \in BOOLEAN, sneha \in Signals, mana \in Signals :
           /\ emergency' = Gear!Calmed(dukkha)
           /\ route' = [stage |-> "chain", left |-> n, late |-> FALSE,
                        base |-> Gear!Modulated(sneha, mana) + IF Gear!Boosted(dukkha) THEN MaxBoost ELSE 0]
           /\ lately' = Gear!Kept(lately, [dukkha |-> dukkha, boosted |-> Gear!Boosted(dukkha)],
                             SustainedTicks + CooldownTicks)
    BY <1>5 DEF Gear!RouteArbitrated
  <2>3. EmergencyInv'
    BY <2>2, EmergencyGoesOn
  <2>4. RouteIsOrderly'
    BY <2>1, <2>2 DEF RouteIsOrderly
  <2> QED
    BY <2>1, <2>3, <2>4 DEF CyclesAreUses
<1>6. CASE Gear!ChainEnds
  <2>1. /\ Gear!Announced(DefaultGear, forcedGear, FALSE) /\ decided' = Gear!Undecided /\ route' = Gear!NoRoute
        /\ UNCHANGED <<emergency, historicalBuffer, extras, lately>>
    BY <1>6 DEF Gear!ChainEnds, Gear!DecidesDefault
  <2>2. CyclesAreUses'
    BY <2>1, GearAnnounced DEF GearBounds
  <2>3. RouteIsOrderly'
    BY <1>2, <2>1 DEF RouteIsOrderly
  <2> QED
    BY <1>1, <1>2, <2>1, <2>2, <2>3 DEF GearBounds
<1>7. CASE Gear!ArbiterPasses
  <2>1. /\ \E late \in BOOLEAN : route' = [route EXCEPT !.left = @ - 1, !.late = late]
        /\ route.stage = "chain" /\ UNCHANGED <<Gear!aggregatorVars, cycles, lately, uses, decided>>
    BY <1>7 DEF Gear!ArbiterPasses
  <2>2. UNCHANGED <<forcedGear, emergency, historicalBuffer, extras>>
    BY <2>1 DEF Gear!aggregatorVars
  <2>3. RouteIsOrderly'
    BY <2>1, <2>2, RouteGoesOn
  <2> QED
    BY <1>1, <2>1, <2>2, <2>3 DEF CyclesAreUses
<1>8. CASE Gear!ArbiterAnswers
  <2>1. /\ UNCHANGED <<forcedGear, emergency, extras, cycles, lately, uses, decided>>
        /\ route.stage = "chain"
    BY <1>8 DEF Gear!ArbiterAnswers
  <2>2. RouteIsOrderly' /\ historicalBuffer' \in Seq(Confidences) /\ Len(historicalBuffer') <= MaxHistory
    <3>1. PICK gear \in Gears, c \in Confidences, risk \in Risks \cup {NoRisk}, q \in Qualities :
             IF c > Gear!Eased(Gear!Adjusted(route.base, risk), q)
             THEN /\ historicalBuffer' = Gear!Kept(historicalBuffer, c, MaxHistory)
                  /\ route' = [stage |-> "audit", gear |-> gear, raw |-> c, risk |-> risk,
                               confidence |-> Gear!Least(c, Caps[gear])]
             ELSE /\ \E late \in BOOLEAN : route' = [route EXCEPT !.left = @ - 1, !.late = late]
                  /\ UNCHANGED historicalBuffer
      BY <1>8 DEF Gear!ArbiterAnswers
    <3>2. CASE c > Gear!Eased(Gear!Adjusted(route.base, risk), q)
      <4>1. /\ historicalBuffer' = Gear!Kept(historicalBuffer, c, MaxHistory)
            /\ route' = [stage |-> "audit", gear |-> gear, raw |-> c, risk |-> risk,
                         confidence |-> Gear!Least(c, Caps[gear])]
        BY <3>1, <3>2
      <4>2. route'.stage = "audit" /\ route'.gear \in Gears
        BY <4>1
      <4>3. forcedGear = {}
        BY <2>1 DEF RouteIsOrderly
      <4>4. RouteIsOrderly'
        BY <2>1, <4>2, <4>3 DEF RouteIsOrderly
      <4>5. PICK n \in Nat : n = Len(historicalBuffer) /\ n <= MaxHistory
        BY LenProperties
      <4>6. PICK t : t = Gear!Kept(historicalBuffer, c, MaxHistory)
        OBVIOUS
      <4>7. KeptSo(t, Confidences, historicalBuffer, c, MaxHistory, n)
        BY <4>5, <4>6, KeptBack DEF GearBounds
      <4>8. t \in Seq(Confidences) /\ Len(t) <= MaxHistory
        BY <4>5, <4>7 DEF KeptSo, GearBounds
      <4> QED
        BY <4>1, <4>4, <4>6, <4>8
    <3>3. CASE ~(c > Gear!Eased(Gear!Adjusted(route.base, risk), q))
      <4>1. /\ \E late \in BOOLEAN : route' = [route EXCEPT !.left = @ - 1, !.late = late]
            /\ UNCHANGED historicalBuffer
        BY <3>1, <3>3
      <4> QED
        BY <2>1, <4>1, RouteGoesOn
    <3> QED
      BY <3>2, <3>3
  <2> QED
    BY <1>1, <2>1, <2>2 DEF CyclesAreUses
<1>9. CASE Gear!Decide
  <2>1. PICK delta \in Deltas, overlong \in BOOLEAN :
           /\ decided' = [gear |-> route.gear, raw |-> route.raw, risk |-> route.risk,
                          confidence |-> route.confidence + Gear!Granted(route.risk, delta)]
           /\ Gear!Announced(route.gear, forcedGear, overlong)
    BY <1>9 DEF Gear!Decide
  <2>2. /\ route.stage = "audit" /\ route' = Gear!NoRoute
        /\ UNCHANGED <<emergency, historicalBuffer, extras, lately>>
    BY <1>9 DEF Gear!Decide
  <2>3. route.gear \in Gears /\ forcedGear = {}
    <3>1. \A left, late, base :
             [stage |-> "chain", left |-> left, late |-> late, base |-> base].stage = "chain"
      OBVIOUS
    <3> QED
      BY <1>2, <2>2, <3>1 DEF RouteIsOrderly
  <2>4. CyclesAreUses'
    BY <2>1, <2>3, GearAnnounced
  <2>5. RouteIsOrderly'
    BY <1>2, <2>2 DEF RouteIsOrderly
  <2>6. decided'.gear \in Gears
    BY <2>1, <2>3
  <2> QED
    BY <1>1, <2>2, <2>4, <2>5, <2>6
<1>10. ASSUME NEW k \in ExtraKeys, Gear!Contribute(k) PROVE GearInv'
  <2>1. extras' = extras \cup {k} /\ UNCHANGED <<forcedGear, emergency, historicalBuffer, cycles,
                                                route, lately, uses, decided>>
    BY <1>10 DEF Gear!Contribute
  <2> QED
    BY <1>1, <2>1 DEF RouteIsOrderly, CyclesAreUses
<1>11. CASE UNCHANGED Gear!vars
  BY <1>1, <1>11 DEF Gear!vars, RouteIsOrderly, CyclesAreUses
<1> QED
  BY <1>3, <1>4, <1>5, <1>6, <1>7, <1>8, <1>9, <1>10, <1>11 DEF Gear!Next

LEMMA GearsBegin == GearBounds /\ Gear!Init => GearInv
<1> SUFFICES ASSUME GearBounds, Gear!Init PROVE GearInv
  OBVIOUS
<1>1. Len(lately) = 0 /\ Len(historicalBuffer) = 0
  BY DEF Gear!Init
<1>2. 0..(0 - 1) = {}
  OBVIOUS
<1>3. EmergencyInv
  BY <1>1, <1>2 DEF Gear!Init, GearBounds, EmergencyInv, CountingTicks, BoostedRightly, Since
<1>4. CyclesAreUses
  <2>1. uses \in [Gears -> Nat] /\ \A g \in Gears : uses[g] = 0
    BY DEF Gear!Init, Gear!NoUses
  <2>2. \A g \in Gears : MaxCycles[g] \in Nat /\ 0 < MaxCycles[g]
    BY DEF GearBounds
  <2> QED
    BY <2>1, <2>2 DEF Gear!Init, CyclesAreUses
<1>5. RouteIsOrderly /\ decided.gear \in Gears
  BY DEF Gear!Init, RouteIsOrderly, Gear!Undecided, GearBounds
<1> QED
  BY <1>1, <1>3, <1>4, <1>5 DEF Gear!Init, GearInv, GearBounds

LEMMA GearsFollow == GearBounds /\ GearInv => Gear!TypeOK /\ Gear!NoGearOutstays /\ Gear!EmergencyIsExact
<1> SUFFICES ASSUME GearBounds, GearInv PROVE Gear!TypeOK /\ Gear!NoGearOutstays /\ Gear!EmergencyIsExact
  OBVIOUS
<1>1. Gear!TypeOK
  <2>1. route.stage \in {"idle", "chain", "audit"}
    BY DEF GearInv, RouteIsOrderly, Gear!NoRoute
  <2> QED
    BY <2>1 DEF GearInv, Gear!TypeOK, CyclesAreUses, EmergencyInv
<1>2. Gear!NoGearOutstays
  BY DEF GearInv, CyclesAreUses, Gear!NoGearOutstays
<1>3. Gear!EmergencyIsExact
  <2>1. PICK n \in Nat : n = Len(lately)
    BY LenProperties DEF GearInv, EmergencyInv
  <2>2. PICK S \in Nat : S = SustainedTicks /\ S > 0
    BY DEF GearBounds
  <2>3. n > 0 => (lately[n].boosted <=>
                    /\ n >= S
                    /\ \A d \in 0..(S - 1) : lately[n - d].dukkha
                    /\ \A d \in 0..(n - 1) : d > 0 => ~lately[n - d].boosted)
    <3>1. n - 0 = n
      OBVIOUS
    <3> QED
      BY <2>1, <2>2, <3>1 DEF GearInv, EmergencyInv, BoostedRightly, Back, Since
  <2>4. n >= S => ((\A d \in 0..(S - 1) : lately[n - d].dukkha)
                      <=> \A i \in (n - S + 1)..n : lately[i].dukkha)
    <3> HAVE n >= S
    <3>1. \A d \in 0..(S - 1) : n - d \in (n - S + 1)..n
      OBVIOUS
    <3>2. \A i \in (n - S + 1)..n : n - i \in 0..(S - 1) /\ n - (n - i) = i
      OBVIOUS
    <3> QED
      BY <3>1, <3>2
  <2>5. (\A d \in 0..(n - 1) : d > 0 => ~lately[n - d].boosted)
           <=> ~\E i \in 1..(n - 1) : lately[i].boosted
    <3>1. \A d \in 0..(n - 1) : d > 0 => n - d \in 1..(n - 1)
      OBVIOUS
    <3>2. \A i \in 1..(n - 1) : n - i \in 0..(n - 1) /\ n - i > 0 /\ n - (n - i) = i
      OBVIOUS
    <3> QED
      BY <3>1, <3>2
  <2> QED
    BY <2>1, <2>2, <2>3, <2>4, <2>5 DEF Gear!EmergencyIsExact
<1> QED
  BY <1>1, <1>2, <1>3

\* A gear that stalls is left by the next route, and an emergency begins and ends exactly
\* when the readings call for it (mano-aggregator.ts, vedana-emergency.ts, agent-core.ts),
\* whatever the gears, the limits and the numbers of ticks.
THEOREM GearsAnswerAlways ==
    ASSUME GearBounds
    PROVE  Gear!Init /\ [][Gear!Next]_Gear!vars => [](Gear!TypeOK /\ Gear!NoGearOutstays /\ Gear!EmergencyIsExact)
BY GearsBegin, GearsGoOn, GearsFollow, PTL


-----------------------------------------------------------------------------
(* The bus and the requests of a sandboxed plugin (rpc-handler.ts). *)

BusBounds == Tenants \in Nat \ {0} /\ MaxRequests \in Nat

Subscriptions == [topic : Bus!Topics, plugin : 1..Tenants, once : BOOLEAN]
MainMsgs == [kind : {"subscribe", "unsubscribe", "request"}, id : Nat]
            \cup [kind : {"emit"}, type : Types \cup {Blocked}] \cup [kind : {"resetComplete"}]
WorkerMsgs == [kind : {"event"}, type : Types, event : Nat] \cup [kind : {"reset"}]
              \cup [kind : {"response"}, id : Nat, of : Nat]

BusTyped ==
    /\ tenant \in 1..Tenants /\ tenancy \in {"owned", "resetting", "released"}
    /\ subs \in Seq(Subscriptions)
    /\ heard \in Seq(Seq(Nat)) /\ Len(heard) = Len(subs)
    /\ since \in Seq(Int) /\ Len(since) = Len(subs)
    /\ subscriptions \in [Bus!Topics -> SUBSET (1..Len(subs))] /\ busHandlers \subseteq 1..Len(subs)
    /\ events \in Seq(Types) /\ emitted \in Nat
    /\ asked \in 0..MaxRequests /\ pending \subseteq 1..asked /\ awaiting \subseteq 1..asked
    /\ answered \in Seq(SUBSET Nat) /\ Len(answered) = asked
    /\ toMain \in Seq(MainMsgs) /\ toWorker \in Seq(WorkerMsgs)

\* A message to the main thread names what there is; whoever unsubscribes has no handler.
MainOk(m) ==
    /\ m.kind \in {"subscribe", "unsubscribe"} => m.id \in 1..Len(subs)
    /\ m.kind = "unsubscribe" => m.id \notin busHandlers
    /\ m.kind = "request" => m.id \in 1..asked
MainWire == \A k \in 1..Len(toMain) : MainOk(toMain[k])

\* Events are on their way in the order of the bus, and a response names its request.
WorkerOk(m) ==
    /\ m.kind = "event" => m.event \in 1..Len(events) /\ m.type = events[m.event]
    /\ m.kind = "response" => m.of = m.id /\ m.id \in 1..asked
WorkerWire ==
    /\ \A k \in 1..Len(toWorker) : WorkerOk(toWorker[k])
    /\ \A j, k \in 1..Len(toWorker) :
          j < k /\ toWorker[j].kind = "event" /\ toWorker[k].kind = "event"
             => toWorker[j].event < toWorker[k].event

\* What a handler heard comes before what is on its way.
Hears(id) ==
    /\ \A j, k \in 1..Len(heard[id]) : j < k => heard[id][j] < heard[id][k]
    /\ \A k \in 1..Len(heard[id]) : /\ heard[id][k] \in 1..Len(events)
                                   /\ Bus!Matches(id, events[heard[id][k]])
    /\ \A k \in 1..Len(heard[id]), j \in 1..Len(toWorker) :
          toWorker[j].kind = "event" => heard[id][k] < toWorker[j].event
    /\ subs[id].once => Len(heard[id]) <= 1 /\ (id \in busHandlers => Len(heard[id]) = 0)
HeardSoFar == \A id \in 1..Len(subs) : Hears(id)

\* The subscription of a handler stands while its plugin owns the worker, and no event
\* passes it by.
Reaches(id, n) ==
    \/ \E k \in 1..Len(heard[id]) : heard[id][k] = n
    \/ \E k \in 1..Len(toWorker) : toWorker[k].kind = "event" /\ toWorker[k].event = n
Live(id) == id \in busHandlers /\ since[id] >= 0 /\ tenancy = "owned" /\ subs[id].plugin = tenant
Subscribed ==
    /\ \A id \in 1..Len(subs) : subs[id].plugin <= tenant
    /\ \A id \in 1..Len(subs) : Live(id) =>
          /\ id \in subscriptions[subs[id].topic]
          /\ \A n \in 1..Len(events) : n > since[id] /\ Bus!Matches(id, events[n]) => Reaches(id, n)

\* A request is settled when it is no longer pending.
Settled ==
    \A r \in 1..asked :
        /\ r \in pending => answered[r] = {}
        /\ r \notin pending => answered[r] = {r} \/ answered[r] = {Bus!TimedOut}

BusInv == BusTyped /\ MainWire /\ WorkerWire /\ HeardSoFar /\ Subscribed /\ Settled

-----------------------------------------------------------------------------
\* A sequence with one more element, with one less and with a few more, place by place.
Longer(t, S, s, e) ==
    /\ t \in Seq(S) /\ Len(t) = Len(s) + 1 /\ Len(s) + 1 \in 1..Len(t) /\ t[Len(s) + 1] = e
    /\ \A k \in 1..Len(s) : k \in 1..Len(t) /\ t[k] = s[k]
    /\ \A k \in 1..Len(t) : k \in 1..Len(s) \/ k = Len(s) + 1

LEMMA IsLonger == ASSUME NEW S, NEW s \in Seq(S), NEW e \in S PROVE Longer(Append(s, e), S, s, e)
<1>1. PICK n \in Nat : n = Len(s)
  BY LenProperties
<1>2. PICK t : t = Append(s, e)
  OBVIOUS
<1>3. t \in Seq(S) /\ Len(t) = n + 1 /\ t[n + 1] = e /\ \A i \in 1..n : t[i] = s[i]
  BY <1>1, <1>2, AppendProperties
<1>4. \A k \in 1..(n + 1) : k \in 1..n \/ k = n + 1
  OBVIOUS
<1>5. \A k \in 1..n : k \in 1..(n + 1)
  OBVIOUS
<1> QED
  BY <1>1, <1>2, <1>3, <1>4, <1>5 DEF Longer

Shorter(t, S, s) ==
    /\ t \in Seq(S) /\ Len(s) = Len(t) + 1 /\ Head(s) = s[1] /\ Head(s) \in S /\ 1 \in 1..Len(s)
    /\ \A k \in 1..Len(t) : k + 1 \in 1..Len(s) /\ t[k] = s[k + 1]
    /\ \A k \in 1..Len(s) : k = 1 \/ (k - 1 \in 1..Len(t) /\ t[k - 1] = s[k])

LEMMA IsShorter == ASSUME NEW S, NEW s \in Seq(S), s # <<>> PROVE Shorter(Tail(s), S, s)
<1>1. PICK n \in Nat : n = Len(Tail(s))
  BY HeadTailProperties, LenProperties
<1>2. /\ Tail(s) \in Seq(S) /\ Len(s) = n + 1 /\ Head(s) \in S
      /\ \A i \in 1..n : Tail(s)[i] = s[i + 1]
  <2>1. PICK l \in Nat : l = Len(s) /\ l # 0
    BY LenProperties, EmptySeq
  <2>2. n = l - 1
    BY <1>1, <2>1, HeadTailProperties
  <2> QED
    BY <1>1, <2>1, <2>2, HeadTailProperties
<1>3. Head(s) = s[1]
  BY <1>2
<1>4. \A k \in 1..n : k + 1 \in 1..(n + 1)
  OBVIOUS
<1>5. \A k \in 1..(n + 1) : k = 1 \/ (k - 1 \in 1..n /\ (k - 1) + 1 = k)
  OBVIOUS
<1>6. 1 \in 1..(n + 1)
  OBVIOUS
<1>7. \A k \in 1..(n + 1) : k = 1 \/ (k - 1 \in 1..n /\ Tail(s)[k - 1] = s[k])
  <2> TAKE k \in 1..(n + 1)
  <2>1. CASE k # 1
    <3>1. PICK j \in 1..n : j = k - 1 /\ j + 1 = k
      BY <1>5, <2>1
    <3> QED
      BY <1>2, <3>1
  <2> QED
    BY <2>1
<1> QED
  BY <1>1, <1>2, <1>3, <1>4, <1>6, <1>7 DEF Shorter

-----------------------------------------------------------------------------
LEMMA BusBegins == BusBounds /\ Bus!Init => BusInv
<1> SUFFICES ASSUME BusBounds, Bus!Init PROVE BusInv
  OBVIOUS
<1>1. Len(<<>>) = 0 /\ \A S : <<>> \in Seq(S)
  BY EmptySeq
<1>2. tenant = 1 /\ 1 \in 1..Tenants
  BY DEF Bus!Init, BusBounds
<1>3. BusTyped
  BY <1>1, <1>2 DEF Bus!Init, BusTyped, BusBounds
<1>4. 1..0 = {}
  OBVIOUS
<1>5. MainWire /\ WorkerWire /\ HeardSoFar /\ Subscribed /\ Settled
  BY <1>1, <1>4 DEF Bus!Init, MainWire, WorkerWire, HeardSoFar, Subscribed, Settled
<1> QED
  BY <1>3, <1>5 DEF BusInv

\* What the plugin hears, and has heard, is not touched.
HearingKept ==
    UNCHANGED <<tenant, tenancy, subscriptions, since, busHandlers, subs, heard, toWorker, events>>

LEMMA HearingStays == HeardSoFar /\ Subscribed /\ HearingKept => HeardSoFar' /\ Subscribed'
BY DEF HearingKept, HeardSoFar, Subscribed, Hears, Live, Reaches, Bus!Matches

LEMMA WorkerWireStays ==
    ASSUME BusTyped, WorkerWire, UNCHANGED <<toWorker, events>>, asked' \in Nat, asked' >= asked
    PROVE  WorkerWire'
<1>1. asked \in Nat
  BY DEF BusTyped
<1>2. \A n \in 1..asked : n \in 1..asked'
  BY <1>1
<1> QED
  BY <1>2 DEF WorkerWire, WorkerOk

LEMMA MainWireStays ==
    ASSUME MainWire, UNCHANGED <<toMain, subs, busHandlers, asked>>
    PROVE  MainWire'
BY DEF MainWire, MainOk

\* A message for the main thread that joins those on their way.
LEMMA MainWireGrows ==
    ASSUME BusTyped, MainWire, NEW m \in MainMsgs, toMain' = Append(toMain, m),
           Len(subs') \in Nat, Len(subs') >= Len(subs), asked' \in Nat, asked' >= asked,
           \A id \in 1..Len(subs) : id \in busHandlers' => id \in busHandlers,
           MainOk(m)'
    PROVE  toMain' \in Seq(MainMsgs) /\ MainWire'
<1>1. Longer(toMain', MainMsgs, toMain, m)
  BY IsLonger DEF BusTyped
<1>2. PICK n \in Nat, k \in Nat : n = Len(subs) /\ k = Len(subs')
  BY LenProperties DEF BusTyped
<1>3. asked \in Nat
  BY DEF BusTyped
<1>4. /\ \A i \in 1..Len(subs) : i \in 1..Len(subs')
      /\ \A i \in 1..asked : i \in 1..asked'
  BY <1>2, <1>3
<1>5. ASSUME NEW j \in 1..Len(toMain) PROVE MainOk(toMain[j])'
  <2>1. MainOk(toMain[j]) /\ toMain'[j] = toMain[j]
    BY <1>1, <1>5 DEF MainWire, Longer
  <2> QED
    BY <1>4, <2>1 DEF MainOk
<1> QED
  BY <1>1, <1>5 DEF Longer, MainWire, MainOk

-----------------------------------------------------------------------------
\* A bus event, sent to the worker or to nobody.
SentOrNot(type) ==
    \/ toWorker' = toWorker /\ subscriptions[type] = {} /\ subscriptions[Bus!Wildcard] = {}
    \/ toWorker' = toWorker /\ tenancy = "released"
    \/ toWorker' = Append(toWorker, [kind |-> "event", type |-> type, event |-> Len(events) + 1])

LEMMA ForwardedSends ==
    ASSUME BusTyped, NEW type \in Types, toWorker' = toWorker \o Bus!Forwarded(subscriptions, type)
    PROVE  SentOrNot(type)
<1> DEFINE m == [kind |-> "event", type |-> type, event |-> Len(events) + 1]
<1>1. Len(events) + 1 \in Nat
  BY LenProperties DEF BusTyped
<1>2. m \in WorkerMsgs
  BY <1>1 DEF WorkerMsgs
<1>3. toWorker \o <<>> = toWorker /\ toWorker \o <<m>> = Append(toWorker, m)
  BY <1>2, ConcatEmptySeq, AppendIsConcat DEF BusTyped
<1> QED
  BY <1>3 DEF Bus!Forwarded, SentOrNot

LEMMA EventMatches ==
    ASSUME BusTyped, NEW id \in 1..Len(subs) PROVE subs[id].topic \in Bus!Topics /\ subs[id].plugin \in Nat
                                                   /\ subs[id].once \in BOOLEAN
<1>1. subs[id] \in Subscriptions
  BY ElementOfSeq DEF BusTyped
<1> QED
  BY <1>1 DEF Subscriptions, BusTyped

LEMMA EventHappens ==
    ASSUME BusInv, NEW type \in Types, events' = Append(events, type), SentOrNot(type),
           UNCHANGED <<tenant, tenancy, subscriptions, since, busHandlers, subs, heard, asked>>
    PROVE  /\ toWorker' \in Seq(WorkerMsgs) /\ events' \in Seq(Types)
           /\ WorkerWire' /\ HeardSoFar' /\ Subscribed'
<1> DEFINE m == [kind |-> "event", type |-> type, event |-> Len(events) + 1]
<1> USE DEF BusInv
<1>1. PICK last \in Nat : last = Len(events) + 1
  BY LenProperties DEF BusTyped
<1>2. m \in WorkerMsgs /\ m.kind = "event" /\ m.event = last /\ m.type = type
  BY <1>1 DEF WorkerMsgs
<1>3. Longer(events', Types, events, type)
  BY IsLonger DEF BusTyped
<1>4. /\ \A k \in 1..Len(events) : k \in 1..Len(events') /\ events'[k] = events[k] /\ k < last
      /\ last \in 1..Len(events') /\ events'[last] = type
      /\ \A k \in 1..Len(events') : k \in 1..Len(events) \/ k = last
  <2>1. \A k \in 1..Len(events) : k < last
    BY <1>1
  <2> QED
    BY <1>1, <1>3, <2>1 DEF Longer
<1>5. Longer(Append(toWorker, m), WorkerMsgs, toWorker, m)
  BY <1>2, IsLonger DEF BusTyped
<1> HIDE DEF m
<1>6. CASE toWorker' = toWorker
  <2>1. WorkerWire'
    BY <1>4, <1>6 DEF WorkerWire, WorkerOk
  <2>2. HeardSoFar'
    BY <1>4, <1>6 DEF HeardSoFar, Hears, Bus!Matches
  <2>3. ASSUME NEW id \in 1..Len(subs), Live(id) PROVE ~Bus!Matches(id, type)
    <3>1. id \in subscriptions[subs[id].topic] /\ tenancy = "owned"
      BY <2>3 DEF Subscribed, Live
    <3>2. CASE toWorker' = Append(toWorker, m)
      <4>1. PICK n \in Nat : n = Len(toWorker)
        BY LenProperties DEF BusTyped
      <4> QED
        BY <1>5, <1>6, <3>2, <4>1 DEF Longer
    <3>3. CASE subscriptions[type] = {} /\ subscriptions[Bus!Wildcard] = {}
      BY <3>1, <3>3 DEF Bus!Matches
    <3> QED
      BY <3>1, <3>2, <3>3 DEF SentOrNot, m
  <2>4. Subscribed'
    <3>1. ASSUME NEW id \in 1..Len(subs), Live(id)', NEW n \in 1..Len(events'), n > since[id],
                 Bus!Matches(id, events[n])'
          PROVE  Reaches(id, n)'
      <4>1. Live(id) /\ Bus!Matches(id, events'[n])
        BY <3>1 DEF Live, Bus!Matches
      <4>2. n # last
        BY <1>4, <2>3, <4>1
      <4>3. n \in 1..Len(events) /\ events'[n] = events[n]
        BY <1>4, <4>2
      <4> QED
        BY <1>6, <3>1, <4>1, <4>3 DEF Subscribed, Reaches
    <3>2. \A id \in 1..Len(subs) : Live(id)' => Live(id)
      BY DEF Live
    <3> QED
      BY <3>1, <3>2 DEF Subscribed
  <2> QED
    BY <1>3, <1>6, <2>1, <2>2, <2>4 DEF BusTyped, Longer
<1>7. CASE toWorker' = Append(toWorker, m)
  <2>1. PICK n \in Nat : n = Len(toWorker)
    BY LenProperties DEF BusTyped
  <2>2. /\ toWorker' \in Seq(WorkerMsgs) /\ n + 1 \in 1..Len(toWorker') /\ toWorker'[n + 1] = m
        /\ \A k \in 1..n : k \in 1..Len(toWorker') /\ toWorker'[k] = toWorker[k] /\ k # n + 1
        /\ \A k \in 1..Len(toWorker') : k \in 1..n \/ k = n + 1
    BY <1>5, <1>7, <2>1 DEF Longer
  <2>3. \A k \in 1..Len(toWorker') : WorkerOk(toWorker[k])'
    <3>1. \A k \in 1..n : WorkerOk(toWorker[k])
      BY <2>1 DEF WorkerWire
    <3> QED
      BY <1>2, <1>4, <2>2, <3>1 DEF WorkerOk
  <2>4. ASSUME NEW j \in 1..Len(toWorker'), NEW k \in 1..Len(toWorker'), j < k,
               toWorker'[j].kind = "event", toWorker'[k].kind = "event"
        PROVE  toWorker'[j].event < toWorker'[k].event
    <3>1. j \in 1..n
      BY <2>1, <2>2, <2>4
    <3>2. CASE k \in 1..n
      BY <2>1, <2>2, <2>4, <3>1, <3>2 DEF WorkerWire
    <3>3. CASE k = n + 1
      <4>1. toWorker[j].event \in 1..Len(events)
        BY <2>1, <2>2, <2>4, <3>1 DEF WorkerWire, WorkerOk
      <4> QED
        BY <1>2, <1>4, <2>2, <3>1, <3>3, <4>1
    <3> QED
      BY <2>2, <3>2, <3>3
  <2>5. WorkerWire'
    BY <2>3, <2>4 DEF WorkerWire
  <2>6. ASSUME NEW id \in 1..Len(subs) PROVE Hears(id)'
    <3>1. Hears(id)
      BY DEF HeardSoFar
    <3>2. ASSUME NEW k \in 1..Len(heard[id]), NEW j \in 1..Len(toWorker'), toWorker'[j].kind = "event"
          PROVE  heard[id][k] < toWorker'[j].event
      <4>1. heard[id][k] \in 1..Len(events)
        BY <3>1 DEF Hears
      <4>2. CASE j = n + 1
        BY <1>2, <1>4, <2>2, <4>1, <4>2
      <4>3. CASE j \in 1..n
        BY <2>1, <2>2, <3>1, <3>2, <4>3 DEF Hears
      <4> QED
        BY <2>2, <4>2, <4>3
    <3>3. \A k \in 1..Len(heard[id]) : /\ heard[id][k] \in 1..Len(events')
                                     /\ Bus!Matches(id, events[heard[id][k]])'
      BY <1>4, <3>1 DEF Hears, Bus!Matches
    <3> QED
      BY <3>1, <3>2, <3>3 DEF Hears
  <2>7. Subscribed'
    <3>1. ASSUME NEW id \in 1..Len(subs), Live(id), NEW k \in 1..Len(events'), k > since[id],
                 Bus!Matches(id, events'[k])
          PROVE  Reaches(id, k)'
      <4>1. CASE k = last
        BY <1>2, <2>2, <4>1 DEF Reaches
      <4>2. CASE k \in 1..Len(events)
        <5>1. Reaches(id, k)
          BY <1>4, <3>1, <4>2 DEF Subscribed
        <5> QED
          BY <2>1, <2>2, <5>1 DEF Reaches
      <4> QED
        BY <1>4, <4>1, <4>2
    <3>2. \A id \in 1..Len(subs) : (Live(id)' => Live(id))
      BY DEF Live, Bus!Matches
    <3>3. ASSUME NEW id \in 1..Len(subs), Live(id)', NEW k \in 1..Len(events'), k > since[id],
                 Bus!Matches(id, events[k])'
          PROVE  Reaches(id, k)'
      <4>1. Bus!Matches(id, events'[k])
        BY <3>3 DEF Bus!Matches
      <4> QED
        BY <3>1, <3>2, <3>3, <4>1
    <3> QED
      BY <3>2, <3>3 DEF Subscribed
  <2> QED
    BY <1>3, <2>2, <2>5, <2>6, <2>7 DEF HeardSoFar, Longer
<1> QED
  BY <1>6, <1>7 DEF SentOrNot, m

\* A message for the worker that is no event.
LEMMA WorkerWireGrows ==
    ASSUME BusInv, NEW m \in WorkerMsgs, m.kind # "event", WorkerOk(m),
           toWorker' = Append(toWorker, m),
           UNCHANGED <<since, busHandlers, subs, heard, events, asked>>,
           \A id \in 1..Len(subs) : Live(id)' => Live(id),
           \A id \in 1..Len(subs), t \in Bus!Topics :
              Live(id)' /\ id \in subscriptions[t] => id \in subscriptions'[t],
           \A id \in 1..Len(subs) : subs[id].plugin <= tenant'
    PROVE  /\ toWorker' \in Seq(WorkerMsgs) /\ WorkerWire' /\ HeardSoFar' /\ Subscribed'
<1> USE DEF BusInv
<1>1. Longer(toWorker', WorkerMsgs, toWorker, m)
  BY IsLonger DEF BusTyped
<1>2. PICK n \in Nat : n = Len(toWorker)
  BY LenProperties DEF BusTyped
<1>3. /\ toWorker' \in Seq(WorkerMsgs) /\ toWorker'[n + 1] = m
      /\ \A k \in 1..n : k \in 1..Len(toWorker') /\ toWorker'[k] = toWorker[k]
      /\ \A k \in 1..Len(toWorker') : k \in 1..n \/ k = n + 1
  BY <1>1, <1>2 DEF Longer
<1>4. \A k \in 1..Len(toWorker') : toWorker'[k].kind = "event" =>
         k \in 1..n /\ toWorker'[k] = toWorker[k]
  BY <1>3
<1>5. \A k \in 1..Len(toWorker') : WorkerOk(toWorker[k])'
  <2>1. \A k \in 1..n : WorkerOk(toWorker[k])
    BY <1>2 DEF WorkerWire
  <2> QED
    BY <1>3, <2>1 DEF WorkerOk
<1>6. WorkerWire'
  BY <1>2, <1>4, <1>5 DEF WorkerWire
<1>7. HeardSoFar'
  BY <1>2, <1>4 DEF HeardSoFar, Hears, Bus!Matches
<1>8. ASSUME NEW id \in 1..Len(subs), Live(id)'
      PROVE  /\ id \in subscriptions'[subs[id].topic]
             /\ \A k \in 1..Len(events) : k > since[id] /\ Bus!Matches(id, events[k]) => Reaches(id, k)'
  <2>1. Live(id) /\ subs[id].topic \in Bus!Topics
    BY <1>8, EventMatches
  <2>2. id \in subscriptions[subs[id].topic]
    BY <2>1 DEF Subscribed
  <2>3. ASSUME NEW k \in 1..Len(events), k > since[id], Bus!Matches(id, events[k]) PROVE Reaches(id, k)'
    <3>1. Reaches(id, k)
      BY <2>1, <2>3 DEF Subscribed
    <3> QED
      BY <1>2, <1>3, <3>1 DEF Reaches
  <2> QED
    BY <1>8, <2>1, <2>2, <2>3
<1>9. Subscribed'
  BY <1>8 DEF Subscribed, Bus!Matches
<1> QED
  BY <1>3, <1>6, <1>7, <1>9

-----------------------------------------------------------------------------
LEMMA BusOn ==
    ASSUME BusInv, NEW t \in Bus!Topics, NEW once \in BOOLEAN, Bus!On(t, once) PROVE BusInv'
<1> USE DEF BusInv
<1>1. PICK n \in Nat : n = Len(subs)
  BY LenProperties DEF BusTyped
<1> DEFINE new == [topic |-> t, plugin |-> tenant, once |-> once]
           m == [kind |-> "subscribe", id |-> n + 1]
<1>2. /\ new \in Subscriptions /\ <<>> \in Seq(Nat) /\ -1 \in Int /\ m \in MainMsgs
      /\ m.kind = "subscribe" /\ m.id = n + 1
  BY EmptySeq DEF BusTyped, Subscriptions, MainMsgs
<1>3. /\ subs' = Append(subs, new) /\ heard' = Append(heard, <<>>) /\ since' = Append(since, -1)
      /\ busHandlers' = busHandlers \cup {n + 1} /\ toMain' = Append(toMain, m)
      /\ UNCHANGED <<tenant, tenancy, subscriptions, emitted, toWorker, events,
                     asked, pending, awaiting, answered>>
  BY <1>1 DEF Bus!On, Bus!requestVars
<1>4. Longer(subs', Subscriptions, subs, new)
  BY <1>2, <1>3, IsLonger DEF BusTyped
<1>5. Longer(heard', Seq(Nat), heard, <<>>)
  BY <1>2, <1>3, IsLonger DEF BusTyped
<1>6. Longer(since', Int, since, -1)
  BY <1>2, <1>3, IsLonger DEF BusTyped
<1>7. /\ new.plugin = tenant /\ new.topic = t /\ new.once = once
  OBVIOUS
<1> HIDE DEF new, m
<1>8. /\ Len(subs') = n + 1 /\ subs' \in Seq(Subscriptions) /\ subs'[n + 1] = new
      /\ \A i \in 1..n : i \in 1..(n + 1) /\ subs'[i] = subs[i]
      /\ \A i \in 1..(n + 1) : i \in 1..n \/ i = n + 1
      /\ n + 1 \in 1..(n + 1)
  BY <1>1, <1>4 DEF Longer
<1>9. /\ Len(heard') = n + 1 /\ heard' \in Seq(Seq(Nat)) /\ heard'[n + 1] = <<>>
      /\ \A i \in 1..n : heard'[i] = heard[i]
  BY <1>1, <1>5 DEF Longer, BusTyped
<1>10. /\ Len(since') = n + 1 /\ since' \in Seq(Int) /\ since'[n + 1] = -1
       /\ \A i \in 1..n : since'[i] = since[i]
  BY <1>1, <1>6 DEF Longer, BusTyped
<1>11. toMain' \in Seq(MainMsgs) /\ MainWire'
  <2>1. asked' \in Nat /\ asked' >= asked
    BY <1>3 DEF BusTyped
  <2>2. \A id \in 1..Len(subs) : id \in busHandlers' => id \in busHandlers
    BY <1>1, <1>3
  <2>3. Len(subs') \in Nat /\ Len(subs') >= Len(subs)
    BY <1>1, <1>8
  <2>4. MainOk(m)'
    BY <1>2, <1>8 DEF MainOk
  <2> QED
    BY <1>2, <1>3, <2>1, <2>2, <2>3, <2>4, MainWireGrows
<1>12. BusTyped'
  <2>1. \A S : S \subseteq 1..n => S \subseteq 1..(n + 1)
    BY <1>8
  <2>2. subscriptions' \in [Bus!Topics -> SUBSET (1..(n + 1))] /\ busHandlers' \subseteq 1..(n + 1)
    BY <1>1, <1>3, <1>8, <2>1 DEF BusTyped
  <2> QED
    BY <1>3, <1>8, <1>9, <1>10, <1>11, <2>2 DEF BusTyped
<1>13. WorkerWire'
  BY <1>3 DEF WorkerWire, WorkerOk
<1>14. HeardSoFar'
  <2>1. \A i \in 1..n : Hears(i)
    BY <1>1 DEF HeardSoFar
  <2>2. \A i \in 1..n : i \in busHandlers' => i \in busHandlers
    BY <1>3
  <2>3. \A i \in 1..n : Hears(i)'
    BY <1>3, <1>8, <1>9, <2>1, <2>2 DEF Hears, Bus!Matches
  <2>4. Hears(n + 1)'
    <3>1. Len(<<>>) = 0 /\ 1..0 = {}
      BY EmptySeq
    <3> QED
      BY <1>9, <3>1 DEF Hears
  <2> QED
    BY <1>8, <2>3, <2>4 DEF HeardSoFar
<1>15. Subscribed'
  <2>1. \A i \in 1..n : Live(i)' => Live(i)
    BY <1>3, <1>8, <1>10 DEF Live
  <2>2. ~Live(n + 1)'
    BY <1>10 DEF Live
  <2>3. \A i \in 1..(n + 1) : subs'[i].plugin <= tenant'
    <3>1. \A i \in 1..n : subs[i].plugin <= tenant
      BY <1>1 DEF Subscribed
    <3>2. tenant <= tenant
      BY DEF BusTyped
    <3> QED
      BY <1>3, <1>7, <1>8, <3>1, <3>2
  <2>4. ASSUME NEW i \in 1..n, Live(i)'
        PROVE  /\ i \in subscriptions'[subs'[i].topic]
               /\ \A k \in 1..Len(events') : k > since'[i] /\ Bus!Matches(i, events[k])' => Reaches(i, k)'
    <3>1. Live(i) /\ subs'[i] = subs[i] /\ since'[i] = since[i] /\ heard'[i] = heard[i] /\ i \in 1..Len(subs)
      BY <1>1, <1>8, <1>9, <1>10, <2>1, <2>4
    <3>2. i \in subscriptions'[subs'[i].topic]
      BY <1>3, <3>1 DEF Subscribed
    <3>3. ASSUME NEW k \in 1..Len(events), k > since[i], Bus!Matches(i, events[k])' PROVE Reaches(i, k)'
      <4>1. Bus!Matches(i, events[k])
        BY <1>3, <3>1, <3>3 DEF Bus!Matches
      <4>2. Reaches(i, k)
        BY <3>1, <3>3, <4>1 DEF Subscribed
      <4> QED
        BY <1>3, <3>1, <4>2 DEF Reaches
    <3> QED
      BY <1>3, <3>1, <3>2, <3>3
  <2> QED
    BY <1>8, <2>2, <2>3, <2>4 DEF Subscribed
<1>16. Settled'
  BY <1>3 DEF Settled
<1> QED
  BY <1>11, <1>12, <1>13, <1>14, <1>15, <1>16

LEMMA BusOff == ASSUME BusInv, NEW id \in 1..Len(subs), Bus!Off(id) PROVE BusInv'
<1> USE DEF BusInv
<1> DEFINE m == [kind |-> "unsubscribe", id |-> id]
<1>1. m \in MainMsgs /\ m.kind = "unsubscribe" /\ m.id = id
  BY DEF MainMsgs
<1>2. /\ busHandlers' = busHandlers \ {id} /\ toMain' = Append(toMain, m)
      /\ UNCHANGED <<tenant, tenancy, subscriptions, since, emitted, subs, heard, toWorker, events,
                     asked, pending, awaiting, answered>>
  BY DEF Bus!Off, Bus!requestVars, Bus!mainVars
<1> HIDE DEF m
<1>3. toMain' \in Seq(MainMsgs) /\ MainWire'
  <2>1. asked' \in Nat /\ asked' >= asked
    BY <1>2 DEF BusTyped
  <2>2. PICK n \in Nat : n = Len(subs)
    BY LenProperties DEF BusTyped
  <2>3. Len(subs') \in Nat /\ Len(subs') >= Len(subs)
    BY <1>2, <2>2
  <2>4. MainOk(m)'
    BY <1>1, <1>2 DEF MainOk
  <2> QED
    BY <1>1, <1>2, <2>1, <2>3, <2>4, MainWireGrows
<1>4. BusTyped'
  BY <1>2, <1>3 DEF BusTyped
<1>5. WorkerWire' /\ Settled'
  BY <1>2 DEF WorkerWire, WorkerOk, Settled
<1>6. HeardSoFar'
  BY <1>2 DEF HeardSoFar, Hears, Bus!Matches
<1>7. Subscribed'
  BY <1>2 DEF Subscribed, Live, Reaches, Bus!Matches
<1> QED
  BY <1>3, <1>4, <1>5, <1>6, <1>7

LEMMA BusEmit == ASSUME BusInv, NEW type \in Types \cup {Blocked}, Bus!Emit(type) PROVE BusInv'
<1> USE DEF BusInv
<1> DEFINE m == [kind |-> "emit", type |-> type]
<1>1. m \in MainMsgs /\ m.kind = "emit"
  BY DEF MainMsgs
<1>2. /\ toMain' = Append(toMain, m)
      /\ UNCHANGED <<tenant, tenancy, subscriptions, since, emitted, subs, heard, busHandlers, toWorker,
                     events, asked, pending, awaiting, answered>>
  BY DEF Bus!Emit, Bus!requestVars, Bus!mainVars, Bus!workerVars
<1> HIDE DEF m
<1>3. toMain' \in Seq(MainMsgs) /\ MainWire'
  <2>1. asked' \in Nat /\ asked' >= asked
    BY <1>2 DEF BusTyped
  <2>2. PICK n \in Nat : n = Len(subs)
    BY LenProperties DEF BusTyped
  <2>3. Len(subs') \in Nat /\ Len(subs') >= Len(subs)
    BY <1>2, <2>2
  <2>4. MainOk(m)'
    BY <1>1 DEF MainOk
  <2> QED
    BY <1>1, <1>2, <2>1, <2>3, <2>4, MainWireGrows
<1>4. BusTyped'
  BY <1>2, <1>3 DEF BusTyped
<1>5. WorkerWire' /\ Settled'
  BY <1>2 DEF WorkerWire, WorkerOk, Settled
<1>6. HeardSoFar' /\ Subscribed'
  BY <1>2, HearingStays DEF HearingKept
<1> QED
  BY <1>3, <1>4, <1>5, <1>6

LEMMA BusRequest == ASSUME BusBounds, BusInv, Bus!Request PROVE BusInv'
<1> USE DEF BusInv
<1>1. PICK r \in Nat : r = asked + 1
  BY DEF BusTyped
<1> DEFINE m == [kind |-> "request", id |-> r]
<1>2. m \in MainMsgs /\ m.kind = "request" /\ m.id = r
  BY DEF MainMsgs
<1>3. /\ toMain' = Append(toMain, m) /\ asked' = r /\ pending' = pending \cup {r}
      /\ answered' = Append(answered, {})
      /\ UNCHANGED <<tenant, tenancy, subscriptions, since, emitted, subs, heard, busHandlers, toWorker,
                     events, awaiting>>
  BY <1>1 DEF Bus!Request, Bus!mainVars, Bus!workerVars
<1> HIDE DEF m
<1>4. /\ asked \in Nat /\ asked + 1 = r /\ asked <= r /\ r \in 0..MaxRequests
      /\ \A i \in 1..asked : i \in 1..r /\ i # r
      /\ \A i \in 1..r : i \in 1..asked \/ i = r
      /\ r \in 1..r
  BY <1>1 DEF Bus!Request, BusBounds, BusTyped
<1>5. toMain' \in Seq(MainMsgs) /\ MainWire'
  <2>2. PICK n \in Nat : n = Len(subs)
    BY LenProperties DEF BusTyped
  <2>3. Len(subs') \in Nat /\ Len(subs') >= Len(subs)
    BY <1>3, <2>2
  <2>4. MainOk(m)'
    BY <1>2, <1>3, <1>4 DEF MainOk
  <2> QED
    BY <1>2, <1>3, <1>4, <2>3, <2>4, MainWireGrows
<1>6. /\ answered' \in Seq(SUBSET Nat) /\ Len(answered') = r /\ answered'[r] = {}
      /\ \A i \in 1..asked : answered'[i] = answered[i]
  <2>1. Longer(answered', SUBSET Nat, answered, {})
    BY <1>3, IsLonger DEF BusTyped
  <2> QED
    BY <1>4, <2>1 DEF Longer, BusTyped
<1>7. BusTyped'
  <2>1. pending' \subseteq 1..r /\ awaiting \subseteq 1..r
    BY <1>3, <1>4 DEF BusTyped
  <2> QED
    BY <1>3, <1>4, <1>5, <1>6, <2>1 DEF BusTyped
<1>8. WorkerWire'
  BY <1>3, <1>4, WorkerWireStays
<1>9. HeardSoFar' /\ Subscribed'
  BY <1>3, HearingStays DEF HearingKept
<1>10. Settled'
  <2>1. \A i \in 1..asked : i \in pending' <=> i \in pending
    BY <1>3, <1>4
  <2> QED
    BY <1>3, <1>4, <1>6, <2>1 DEF Settled
<1> QED
  BY <1>5, <1>7, <1>8, <1>9, <1>10

\* One of the requests is settled.
LEMMA Settles ==
    ASSUME BusTyped, Settled, NEW r \in pending, NEW v \in {r, Bus!TimedOut},
           pending' = pending \ {r}, answered' = [answered EXCEPT ![r] = @ \cup {v}],
           asked' = asked
    PROVE  /\ Settled' /\ answered' \in Seq(SUBSET Nat) /\ Len(answered') = asked'
           /\ pending' \subseteq 1..asked'
<1>1. r \in 1..asked /\ r \in Nat /\ r # 0 /\ asked \in Nat
  BY DEF BusTyped
<1>2. v \in Nat
  BY <1>1 DEF Bus!TimedOut
<1>3. r \in 1..Len(answered) /\ Len(answered) = asked /\ answered[r] = {}
  BY <1>1 DEF BusTyped, Settled
<1>4. answered' = [answered EXCEPT ![r] = {v}]
  BY <1>3
<1>5. {v} \in SUBSET Nat
  BY <1>2
<1>6. /\ answered' \in Seq(SUBSET Nat) /\ Len(answered') = Len(answered)
      /\ \A i \in 1..Len(answered) : answered'[i] = IF i = r THEN {v} ELSE answered[i]
  BY <1>3, <1>4, <1>5, ExceptSeq DEF BusTyped
<1>7. Settled'
  BY <1>1, <1>3, <1>6 DEF Settled
<1> QED
  BY <1>3, <1>6, <1>7 DEF BusTyped

LEMMA BusTimeout == ASSUME BusInv, NEW r \in pending, Bus!RequestTimeout(r) PROVE BusInv'
<1> USE DEF BusInv
<1>1. /\ pending' = pending \ {r} /\ answered' = [answered EXCEPT ![r] = @ \cup {Bus!TimedOut}]
      /\ UNCHANGED <<tenant, tenancy, subscriptions, since, emitted, subs, heard, busHandlers, toMain,
                     toWorker, events, asked, awaiting>>
  BY DEF Bus!RequestTimeout, Bus!mainVars, Bus!workerVars, Bus!wire
<1>2. Settled' /\ answered' \in Seq(SUBSET Nat) /\ Len(answered') = asked' /\ pending' \subseteq 1..asked'
  BY <1>1, Settles
<1>3. BusTyped'
  BY <1>1, <1>2 DEF BusTyped
<1>4. MainWire' /\ WorkerWire'
  BY <1>1, MainWireStays DEF WorkerWire, WorkerOk
<1>5. HeardSoFar' /\ Subscribed'
  BY <1>1, HearingStays DEF HearingKept
<1> QED
  BY <1>2, <1>3, <1>4, <1>5

-----------------------------------------------------------------------------
\* Messages that the worker sends back while it handles one.
LEMMA MainWireJoins ==
    ASSUME BusTyped, MainWire, NEW back \in Seq(MainMsgs), toMain' = toMain \o back,
           UNCHANGED <<subs, asked>>, busHandlers' \subseteq busHandlers,
           \A k \in 1..Len(back) : MainOk(back[k])'
    PROVE  toMain' \in Seq(MainMsgs) /\ MainWire'
<1>1. PICK n \in Nat, l \in Nat : n = Len(toMain) /\ l = Len(back)
  BY LenProperties DEF BusTyped
<1>2. /\ toMain' \in Seq(MainMsgs) /\ Len(toMain') = n + l
      /\ \A k \in 1..(n + l) : toMain'[k] = IF k <= n THEN toMain[k] ELSE back[k - n]
  BY <1>1, ConcatProperties DEF BusTyped
<1>3. ASSUME NEW k \in 1..(n + l) PROVE MainOk(toMain[k])'
  <2>1. CASE k <= n
    <3>1. k \in 1..n /\ toMain'[k] = toMain[k]
      BY <1>2, <2>1
    <3>2. MainOk(toMain[k])
      BY <1>1, <3>1 DEF MainWire
    <3> QED
      BY <3>1, <3>2 DEF MainOk
  <2>2. CASE ~(k <= n)
    <3>1. PICK j \in 1..l : j = k - n
      BY <2>2
    <3>2. toMain'[k] = back[j]
      BY <1>2, <2>2, <3>1
    <3> QED
      BY <1>1, <3>1, <3>2 DEF MainOk
  <2> QED
    BY <2>1, <2>2
<1> QED
  BY <1>2, <1>3 DEF MainWire, MainOk

LEMMA BusWorkerReceive == ASSUME BusInv, Bus!WorkerReceive PROVE BusInv'
<1> USE DEF BusInv
<1>1. PICK m : m = Head(toWorker)
  OBVIOUS
<1>2. PICK hit : hit = {id \in busHandlers : m.kind = "event" /\ Bus!Matches(id, m.type)}
  OBVIOUS
<1>3. PICK spent : spent = {id \in hit : subs[id].once}
  OBVIOUS
<1>4. PICK told \in [1..Cardinality(spent) -> spent] :
        toMain' = toMain \o (IF m.kind = "reset" THEN <<[kind |-> "resetComplete"]>>
                             ELSE [k \in DOMAIN told |->
                                     [kind |-> "unsubscribe", id |-> told[k]]])
  BY <1>1, <1>2, <1>3, SameCounts DEF Bus!WorkerReceive
<1>50. PICK back : back = IF m.kind = "reset" THEN <<[kind |-> "resetComplete"]>>
                         ELSE [k \in DOMAIN told |-> [kind |-> "unsubscribe", id |-> told[k]]]
  OBVIOUS
<1>5. /\ toWorker # <<>> /\ toWorker' = Tail(toWorker)
      /\ heard' = [id \in Bus!Ids |-> IF id \in hit THEN Append(heard[id], m.event) ELSE heard[id]]
      /\ busHandlers' = busHandlers \ spent /\ toMain' = toMain \o back
      /\ UNCHANGED <<tenant, tenancy, subscriptions, since, emitted, subs, events, asked, awaiting>>
  BY <1>1, <1>2, <1>3, <1>4, <1>50 DEF Bus!WorkerReceive, Bus!mainVars
<1>6. IF m.kind = "response" /\ m.id \in pending
      THEN pending' = pending \ {m.id} /\ answered' = [answered EXCEPT ![m.id] = @ \cup {m.of}]
      ELSE UNCHANGED <<pending, answered>>
  BY <1>1 DEF Bus!WorkerReceive
<1>7. PICK n \in Nat : n = Len(subs) /\ Bus!Ids = 1..n
  BY LenProperties DEF BusTyped, Bus!Ids
<1>8. PICK l \in Nat : l = Len(Tail(toWorker))
  <2>1. Tail(toWorker) \in Seq(WorkerMsgs)
    BY <1>5, HeadTailProperties DEF BusTyped
  <2> QED
    BY <2>1, LenProperties
<1>9. /\ toWorker' \in Seq(WorkerMsgs) /\ Len(toWorker') = l /\ m = toWorker[1] /\ m \in WorkerMsgs
      /\ 1 \in 1..Len(toWorker)
      /\ \A k \in 1..l : k + 1 \in 1..Len(toWorker) /\ toWorker'[k] = toWorker[k + 1]
      /\ \A k \in 1..Len(toWorker) : k = 1 \/ (k - 1 \in 1..l /\ toWorker'[k - 1] = toWorker[k])
  <2>1. Shorter(Tail(toWorker), WorkerMsgs, toWorker)
    BY <1>5, IsShorter DEF BusTyped
  <2> QED
    BY <1>1, <1>5, <1>8, <2>1 DEF Shorter
<1>10. /\ WorkerOk(m) /\ (m.kind = "event" => m.event \in Nat /\ m.event \in 1..Len(events)
                                              /\ m.type = events[m.event])
  BY <1>9 DEF WorkerWire, WorkerOk
<1>11. hit \subseteq busHandlers /\ spent \subseteq hit /\ busHandlers \subseteq 1..n /\ hit \subseteq 1..n
  BY <1>2, <1>3, <1>7 DEF BusTyped
<1>12. heard' \in Seq(Seq(Nat)) /\ Len(heard') = n
       /\ \A id \in 1..n : heard'[id] = IF id \in hit THEN Append(heard[id], m.event) ELSE heard[id]
  <2>1. ASSUME NEW id \in 1..n
        PROVE  (IF id \in hit THEN Append(heard[id], m.event) ELSE heard[id]) \in Seq(Nat)
    <3>1. heard[id] \in Seq(Nat)
      BY <1>7, ElementOfSeq DEF BusTyped
    <3>2. id \in hit => m.event \in Nat
      BY <1>2, <1>10
    <3> QED
      BY <3>1, <3>2, AppendProperties
  <2>2. heard' \in [1..n -> Seq(Nat)]
    BY <1>5, <1>7, <2>1
  <2>3. heard' \in Seq(Seq(Nat)) /\ DOMAIN heard' = 1..n
    BY <2>2, SeqDef
  <2>4. Len(heard') = n
    BY <2>3, LenProperties
  <2> QED
    BY <1>5, <1>7, <2>3, <2>4
<1>13. back \in Seq(MainMsgs) /\ \A k \in 1..Len(back) : MainOk(back[k])'
  <2>1. CASE m.kind = "reset"
    <3>1. back = <<[kind |-> "resetComplete"]>> /\ [kind |-> "resetComplete"] \in MainMsgs
      BY <1>50, <2>1 DEF MainMsgs
    <3>2. back \in Seq(MainMsgs) /\ Len(back) = 1 /\ back[1] = [kind |-> "resetComplete"]
      BY <3>1
    <3>3. MainOk([kind |-> "resetComplete"])'
      BY DEF MainOk
    <3>4. \A k \in 1..Len(back) : k = 1
      BY <3>2
    <3> QED
      BY <3>2, <3>3, <3>4
  <2>2. CASE m.kind # "reset"
    <3>2. IsFiniteSet(spent)
      <4>1. IsFiniteSet(1..n)
        BY FS_Interval
      <4> QED
        BY <1>11, <4>1, FS_Subset
    <3>4. PICK c \in Nat : c = Cardinality(spent)
      BY <3>2, FS_CardinalityType
    <3>5. DOMAIN told = 1..c /\ \A k \in 1..c : told[k] \in spent
      BY <3>4
    <3>6. back = [k \in 1..c |-> [kind |-> "unsubscribe", id |-> told[k]]]
      BY <1>50, <2>2, <3>5
    <3>7. \A k \in 1..c : told[k] \in 1..n /\ told[k] \notin busHandlers' /\ told[k] \in Nat
      <4>1. \A x \in spent : x \in 1..n /\ x \notin busHandlers'
        BY <1>5, <1>11
      <4>2. \A x \in 1..n : x \in Nat
        OBVIOUS
      <4> QED
        BY <3>5, <4>1, <4>2
    <3>8. back \in [1..c -> MainMsgs]
      BY <3>6, <3>7 DEF MainMsgs
    <3>9. back \in Seq(MainMsgs) /\ DOMAIN back = 1..c
      BY <3>8, SeqDef
    <3>10. Len(back) = c
      BY <3>9, LenProperties
    <3>11. \A k \in 1..c : back[k].kind = "unsubscribe" /\ back[k].id = told[k]
      BY <3>6
    <3>12. \A k \in 1..c : MainOk(back[k])'
      BY <1>5, <1>7, <3>7, <3>11 DEF MainOk
    <3> QED
      BY <3>9, <3>10, <3>12
  <2> QED
    BY <2>1, <2>2
<1>14. toMain' \in Seq(MainMsgs) /\ MainWire'
  BY <1>5, <1>13, MainWireJoins
<1>15. Settled' /\ answered' \in Seq(SUBSET Nat) /\ Len(answered') = asked' /\ pending' \subseteq 1..asked'
  <2>1. CASE m.kind = "response" /\ m.id \in pending
    <3>1. m.of \in {m.id, Bus!TimedOut}
      BY <1>10, <2>1 DEF WorkerOk
    <3> QED
      BY <1>5, <1>6, <2>1, <3>1, Settles
  <2>2. CASE ~(m.kind = "response" /\ m.id \in pending)
    BY <1>5, <1>6, <2>2 DEF Settled, BusTyped
  <2> QED
    BY <2>1, <2>2
<1>16. BusTyped'
  BY <1>5, <1>7, <1>9, <1>12, <1>14, <1>15 DEF BusTyped
<1>17. WorkerWire'
  <2>1. \A k \in 1..l : WorkerOk(toWorker[k])'
    BY <1>5, <1>9 DEF WorkerWire, WorkerOk
  <2>2. \A j, k \in 1..l : j < k => j + 1 < k + 1
    OBVIOUS
  <2>3. ASSUME NEW j \in 1..l, NEW k \in 1..l, j < k,
               toWorker'[j].kind = "event", toWorker'[k].kind = "event"
        PROVE  toWorker'[j].event < toWorker'[k].event
    <3>1. /\ j + 1 \in 1..Len(toWorker) /\ k + 1 \in 1..Len(toWorker) /\ j + 1 < k + 1
          /\ toWorker'[j] = toWorker[j + 1] /\ toWorker'[k] = toWorker[k + 1]
      BY <1>9, <2>2, <2>3
    <3> QED
      BY <2>3, <3>1 DEF WorkerWire
  <2> QED
    BY <1>9, <2>1, <2>3 DEF WorkerWire
<1>18. \A j \in 1..l : toWorker'[j].kind = "event" /\ m.kind = "event" => m.event < toWorker'[j].event
  <2>1. \A j \in 1..l : 1 < j + 1
    OBVIOUS
  <2> QED
    BY <1>9, <2>1 DEF WorkerWire
<1>19. ASSUME NEW id \in 1..n PROVE Hears(id)'
  <2>1. Hears(id)
    BY <1>7 DEF HeardSoFar
  <2>2. heard[id] \in Seq(Nat)
    BY <1>7, ElementOfSeq DEF BusTyped
  <2>3. PICK c \in Nat : c = Len(heard[id])
    BY <2>2, LenProperties
  <2>4. \A k \in 1..c, j \in 1..l : toWorker'[j].kind = "event" => heard[id][k] < toWorker'[j].event
    <3>1. \A k \in 1..c, j \in 1..Len(toWorker) :
             toWorker[j].kind = "event" => heard[id][k] < toWorker[j].event
      BY <2>1, <2>3 DEF Hears
    <3>2. \A j \in 1..l : j + 1 \in 1..Len(toWorker) /\ toWorker'[j] = toWorker[j + 1]
      BY <1>9
    <3>3. ASSUME NEW k \in 1..c, NEW j \in 1..l, toWorker'[j].kind = "event"
          PROVE  heard[id][k] < toWorker'[j].event
      <4>1. PICK i \in 1..Len(toWorker) : toWorker'[j] = toWorker[i]
        BY <3>2
      <4> QED
        BY <3>1, <3>3, <4>1
    <3> QED
      BY <3>3
  <2>5. CASE id \notin hit
    <3>1. heard'[id] = heard[id] /\ (id \in busHandlers' => id \in busHandlers)
      BY <1>5, <1>12, <2>5
    <3> QED
      BY <1>5, <1>9, <2>1, <2>3, <2>4, <3>1 DEF Hears, Bus!Matches
  <2>6. CASE id \in hit
    <3>1. m.kind = "event" /\ Bus!Matches(id, m.type) /\ id \in busHandlers
      BY <1>2, <2>6
    <3>2. PICK e \in Nat : e = m.event /\ e \in 1..Len(events) /\ m.type = events[e]
      BY <1>10, <3>1
    <3>3. heard'[id] = Append(heard[id], e)
      BY <1>12, <2>6, <3>2
    <3>4. Longer(heard'[id], Nat, heard[id], e)
      BY <2>2, <3>3, IsLonger
    <3>5. /\ Len(heard'[id]) = c + 1 /\ heard'[id][c + 1] = e
          /\ \A k \in 1..c : heard'[id][k] = heard[id][k]
          /\ \A k \in 1..(c + 1) : k \in 1..c \/ k = c + 1
      BY <2>3, <3>4 DEF Longer
    <3>6. \A k \in 1..c : heard[id][k] < e
      BY <1>9, <2>1, <2>3, <3>1, <3>2 DEF Hears
    <3>7. \A j, k \in 1..(c + 1) : j < k => heard'[id][j] < heard'[id][k]
      <4>1. \A j, k \in 1..(c + 1) : j < k => j \in 1..c
        OBVIOUS
      <4> QED
        BY <2>1, <2>3, <3>5, <3>6, <4>1 DEF Hears
    <3>8. \A k \in 1..(c + 1) : heard'[id][k] \in 1..Len(events) /\ Bus!Matches(id, events[heard'[id][k]])
      BY <2>1, <2>3, <3>1, <3>2, <3>5 DEF Hears
    <3>9. \A k \in 1..(c + 1), j \in 1..l :
             toWorker'[j].kind = "event" => heard'[id][k] < toWorker'[j].event
      BY <1>18, <2>4, <3>1, <3>2, <3>5
    <3>10. subs[id].once => c = 0 /\ id \notin busHandlers'
      BY <1>3, <1>5, <2>1, <2>3, <2>6, <3>1 DEF Hears
    <3> QED
      <4>1. subs'[id].once => Len(heard'[id]) <= 1 /\ (id \in busHandlers' => Len(heard'[id]) = 0)
        <5>1. subs'[id].once = subs[id].once
          BY <1>5
        <5>2. CASE subs[id].once
          <6>1. c = 0 /\ id \notin busHandlers' /\ Len(heard'[id]) = c + 1
            BY <3>5, <3>10, <5>2
          <6>2. Len(heard'[id]) = 1
            BY <6>1
          <6> QED
            BY <6>1, <6>2
        <5>3. CASE ~subs[id].once
          BY <5>1, <5>3
        <5> QED
          BY <5>2, <5>3
      <4>2. PICK h : h = heard'[id]
        OBVIOUS
      <4>3. \A k \in 1..Len(h) : h[k] \in 1..Len(events') /\ Bus!Matches(id, events[h[k]])'
        BY <1>5, <3>5, <3>8, <4>2 DEF Bus!Matches
      <4>4. \A k \in 1..Len(h), j \in 1..Len(toWorker') :
               toWorker'[j].kind = "event" => h[k] < toWorker'[j].event
        BY <1>9, <3>5, <3>9, <4>2
      <4>5. \A j, k \in 1..Len(h) : j < k => h[j] < h[k]
        BY <3>5, <3>7, <4>2
      <4> QED
        BY <4>1, <4>2, <4>3, <4>4, <4>5 DEF Hears, Bus!Matches
  <2> QED
    BY <2>5, <2>6
<1>20. HeardSoFar'
  BY <1>5, <1>7, <1>19 DEF HeardSoFar
<1>21. ASSUME NEW id \in 1..n, Live(id)', NEW k \in 1..Len(events), k > since[id],
              Bus!Matches(id, events[k])
       PROVE  Reaches(id, k)'
  <2>1. Live(id)
    BY <1>5, <1>21 DEF Live
  <2>2. Reaches(id, k)
    BY <1>7, <1>21, <2>1 DEF Subscribed
  <2>3. heard[id] \in Seq(Nat)
    BY <1>7, ElementOfSeq DEF BusTyped
  <2>4. PICK c \in Nat : c = Len(heard[id])
    BY <2>3, LenProperties
  <2>5. CASE \E j \in 1..c : heard[id][j] = k
    <3>1. PICK j \in 1..c : heard[id][j] = k
      BY <2>5
    <3>2. CASE id \in hit
      <4>1. m.event \in Nat
        BY <1>2, <1>10, <3>2
      <4>2. Longer(heard'[id], Nat, heard[id], m.event)
        BY <1>12, <2>3, <3>2, <4>1, IsLonger
      <4> QED
        BY <2>4, <3>1, <4>2 DEF Longer, Reaches
    <3>3. CASE id \notin hit
      BY <1>12, <2>4, <3>1, <3>3 DEF Reaches
    <3> QED
      BY <3>2, <3>3
  <2>6. CASE \E j \in 1..Len(toWorker) : toWorker[j].kind = "event" /\ toWorker[j].event = k
    <3>1. PICK j \in 1..Len(toWorker) : toWorker[j].kind = "event" /\ toWorker[j].event = k
      BY <2>6
    <3>2. CASE j = 1
      <4>1. m.kind = "event" /\ m.event = k /\ m.type = events[k] /\ k \in Nat
        BY <1>9, <1>10, <3>1, <3>2
      <4>2. id \in hit
        BY <1>2, <1>21, <2>1, <4>1 DEF Live
      <4>3. Longer(heard'[id], Nat, heard[id], k)
        BY <1>12, <2>3, <4>1, <4>2, IsLonger
      <4>4. Len(heard[id]) + 1 \in 1..Len(heard'[id]) /\ heard'[id][Len(heard[id]) + 1] = k
        BY <4>3 DEF Longer
      <4> QED
        BY <4>4 DEF Reaches
    <3>3. CASE j # 1
      <4>1. PICK i \in 1..l : toWorker'[i] = toWorker[j]
        BY <1>9, <3>3
      <4> QED
        BY <1>9, <3>1, <4>1 DEF Reaches
    <3> QED
      BY <3>2, <3>3
  <2> QED
    BY <2>2, <2>4, <2>5, <2>6 DEF Reaches
<1>22. Subscribed'
  <2>1. \A id \in 1..n : Live(id)' => Live(id)
    BY <1>5 DEF Live
  <2> QED
    BY <1>5, <1>7, <1>21, <2>1 DEF Subscribed, Bus!Matches
<1> QED
  BY <1>14, <1>15, <1>16, <1>17, <1>20, <1>22

-----------------------------------------------------------------------------
LEMMA BusEventStep == ASSUME BusInv, NEW type \in Types, Bus!BusEvent(type) PROVE BusInv'
<1> USE DEF BusInv
<1>1. /\ events' = Append(events, type) /\ toWorker' = toWorker \o Bus!Forwarded(subscriptions, type)
      /\ UNCHANGED <<tenant, tenancy, subscriptions, since, emitted, subs, heard, busHandlers, toMain,
                     asked, pending, awaiting, answered>>
  BY DEF Bus!BusEvent, Bus!mainVars, Bus!workerVars, Bus!requestVars
<1>2. SentOrNot(type)
  BY <1>1, ForwardedSends
<1>3. toWorker' \in Seq(WorkerMsgs) /\ events' \in Seq(Types) /\ WorkerWire' /\ HeardSoFar' /\ Subscribed'
  BY <1>1, <1>2, EventHappens
<1>4. BusTyped' /\ Settled'
  BY <1>1, <1>3 DEF BusTyped, Settled
<1> QED
  BY <1>1, <1>3, <1>4, MainWireStays

\* The first of the messages on their way is taken.
LEMMA MainTakes ==
    ASSUME BusTyped, MainWire, toMain # <<>>, toMain' = Tail(toMain),
           UNCHANGED <<subs, busHandlers, asked>>
    PROVE  /\ toMain' \in Seq(MainMsgs) /\ MainWire'
           /\ Head(toMain) \in MainMsgs /\ MainOk(Head(toMain))
<1>1. PICK l \in Nat : l = Len(Tail(toMain))
  <2>1. Tail(toMain) \in Seq(MainMsgs)
    BY HeadTailProperties DEF BusTyped
  <2> QED
    BY <2>1, LenProperties
<1>2. /\ toMain' \in Seq(MainMsgs) /\ Len(toMain') = l /\ Head(toMain) = toMain[1]
      /\ Head(toMain) \in MainMsgs /\ 1 \in 1..Len(toMain)
      /\ \A k \in 1..l : k + 1 \in 1..Len(toMain) /\ toMain'[k] = toMain[k + 1]
  <2>1. Shorter(Tail(toMain), MainMsgs, toMain)
    BY IsShorter DEF BusTyped
  <2> QED
    BY <1>1, <2>1 DEF Shorter
<1> QED
  BY <1>2 DEF MainWire, MainOk

LEMMA BusMainReceive == ASSUME BusInv, Bus!MainReceive PROVE BusInv'
<1> USE DEF BusInv
<1>1. PICK m : m = Head(toMain)
  OBVIOUS
<1>2. toMain # <<>> /\ toMain' = Tail(toMain)
      /\ UNCHANGED <<tenant, tenancy, busHandlers, subs, heard, asked, pending, answered>>
  BY DEF Bus!MainReceive, Bus!workerVars
<1>3. toMain' \in Seq(MainMsgs) /\ MainWire' /\ m \in MainMsgs /\ MainOk(m)
  BY <1>1, <1>2, MainTakes
<1>4. PICK goes \in BOOLEAN :
          goes = (tenancy # "released" /\ m.kind = "emit" /\ m.type # Blocked /\ emitted < RateLimit)
  OBVIOUS
<1>5. /\ subscriptions' =
           CASE tenancy # "released" /\ m.kind = "subscribe" ->
                  [subscriptions EXCEPT ![subs[m.id].topic] = @ \cup {m.id}]
             [] tenancy # "released" /\ m.kind = "unsubscribe" -> Bus!Unsubscribed(m.id)
             [] OTHER -> subscriptions
      /\ since' = IF (tenancy # "released" /\ m.kind = "subscribe") /\ tenancy = "owned"
                  THEN [since EXCEPT ![m.id] = Len(events)] ELSE since
      /\ emitted' = IF goes THEN emitted + 1 ELSE emitted
      /\ events' = IF goes THEN Append(events, m.type) ELSE events
      /\ toWorker' = IF goes THEN toWorker \o Bus!Forwarded(subscriptions, m.type) ELSE toWorker
      /\ awaiting' = IF tenancy # "released" /\ m.kind = "request" THEN awaiting \cup {m.id} ELSE awaiting
  BY <1>1, <1>4 DEF Bus!MainReceive
<1>6. emitted' \in Nat /\ awaiting' \subseteq 1..asked
  <2>1. emitted \in Nat /\ emitted + 1 \in Nat
    BY DEF BusTyped
  <2>2. emitted' \in Nat
    BY <1>5, <2>1
  <2>3. awaiting \subseteq 1..asked /\ (m.kind = "request" => m.id \in 1..asked)
    BY <1>3 DEF BusTyped, MainOk
  <2>4. awaiting' \subseteq 1..asked
    BY <1>5, <2>3
  <2> QED
    BY <2>2, <2>4
<1>7. Settled'
  BY <1>2 DEF Settled
<1>8. CASE goes
  <2>1. m.type \in Types /\ m.kind = "emit"
    <3>1. m.kind = "emit" /\ m.type # Blocked
      BY <1>4, <1>8
    <3> QED
      BY <1>3, <3>1 DEF MainMsgs
  <2>2. /\ subscriptions' = subscriptions /\ since' = since /\ awaiting' = awaiting
        /\ events' = Append(events, m.type)
        /\ toWorker' = toWorker \o Bus!Forwarded(subscriptions, m.type)
    BY <1>5, <1>8, <2>1
  <2>3. SentOrNot(m.type)
    BY <2>1, <2>2, ForwardedSends
  <2>4. toWorker' \in Seq(WorkerMsgs) /\ events' \in Seq(Types) /\ WorkerWire' /\ HeardSoFar' /\ Subscribed'
    BY <1>2, <2>1, <2>2, <2>3, EventHappens
  <2>5. BusTyped'
    BY <1>2, <1>3, <1>6, <2>2, <2>4 DEF BusTyped
  <2> QED
    BY <1>3, <1>7, <2>4, <2>5
<1>9. CASE ~goes
  <2>1. events' = events /\ toWorker' = toWorker
    BY <1>5, <1>9
  <2>2. WorkerWire' /\ HeardSoFar'
    BY <1>2, <2>1 DEF WorkerWire, WorkerOk, HeardSoFar, Hears, Bus!Matches
  <2>3. CASE tenancy # "released" /\ m.kind = "subscribe"
    <3>1. subscriptions' = [subscriptions EXCEPT ![subs[m.id].topic] = @ \cup {m.id}]
          /\ m.id \in 1..Len(subs) /\ awaiting' = awaiting
      BY <1>3, <1>5, <2>3 DEF MainOk
    <3>2. subs[m.id].topic \in Bus!Topics
      BY <3>1, EventMatches
    <3>3. PICK now \in Nat : now = Len(events)
      BY LenProperties DEF BusTyped
    <3>4. /\ since' \in Seq(Int) /\ Len(since') = Len(subs)
          /\ \A i \in 1..Len(subs) : since'[i] = IF i = m.id /\ tenancy = "owned" THEN now ELSE since[i]
      <4>1. CASE tenancy = "owned"
        <5>1. since' = [since EXCEPT ![m.id] = now] /\ now \in Int
          BY <1>5, <2>3, <3>3, <4>1
        <5>2. since \in Seq(Int) /\ Len(since) = Len(subs)
          BY DEF BusTyped
        <5> QED
          BY <3>1, <4>1, <5>1, <5>2, ExceptSeq
      <4>2. CASE tenancy # "owned"
        BY <1>5, <4>2 DEF BusTyped
      <4> QED
        BY <4>1, <4>2
    <3>5. /\ subscriptions' \in [Bus!Topics -> SUBSET (1..Len(subs))]
          /\ \A t \in Bus!Topics : subscriptions[t] \subseteq subscriptions'[t]
          /\ m.id \in subscriptions'[subs[m.id].topic]
      BY <3>1, <3>2 DEF BusTyped
    <3>6. BusTyped'
      BY <1>2, <1>3, <1>6, <2>1, <3>4, <3>5 DEF BusTyped
    <3>7. ASSUME NEW id \in 1..Len(subs), Live(id)'
          PROVE  /\ id \in subscriptions'[subs[id].topic]
                 /\ \A n \in 1..Len(events) : n > since'[id] /\ Bus!Matches(id, events[n]) => Reaches(id, n)'
      <4>1. tenancy = "owned" /\ id \in busHandlers /\ subs[id].plugin = tenant /\ since'[id] >= 0
        BY <1>2, <3>7 DEF Live
      <4>2. CASE id = m.id
        <5>1. \A n \in 1..Len(events) : ~(n > now)
          BY <3>3
        <5> QED
          BY <3>4, <3>5, <4>1, <4>2, <5>1
      <4>3. CASE id # m.id
        <5>1. since'[id] = since[id] /\ Live(id) /\ subs[id].topic \in Bus!Topics
          BY <3>4, <4>1, <4>3, EventMatches DEF Live
        <5>2. \A n : Reaches(id, n) => Reaches(id, n)'
          BY <1>2, <2>1 DEF Reaches
        <5> QED
          BY <3>5, <5>1, <5>2 DEF Subscribed
      <4> QED
        BY <4>2, <4>3
    <3>8. Subscribed'
      BY <1>2, <2>1, <3>7 DEF Subscribed, Bus!Matches
    <3> QED
      BY <1>3, <1>7, <2>2, <3>6, <3>8
  <2>4. CASE tenancy # "released" /\ m.kind = "unsubscribe"
    <3>1. /\ subscriptions' = [subscriptions EXCEPT ![subs[m.id].topic] = @ \ {m.id}]
          /\ m.id \in 1..Len(subs) /\ m.id \notin busHandlers /\ awaiting' = awaiting /\ since' = since
      BY <1>3, <1>5, <2>4 DEF MainOk, Bus!Unsubscribed
    <3>2. /\ subscriptions' \in [Bus!Topics -> SUBSET (1..Len(subs))]
          /\ \A t \in Bus!Topics, id \in busHandlers : id \in subscriptions[t] => id \in subscriptions'[t]
      <4>1. subs[m.id].topic \in Bus!Topics
        BY <3>1, EventMatches
      <4> QED
        BY <3>1, <4>1 DEF BusTyped
    <3>3. BusTyped'
      BY <1>2, <1>3, <1>6, <2>1, <3>1, <3>2 DEF BusTyped
    <3>4. \A id \in 1..Len(subs) : (Live(id)' => Live(id) /\ id \in busHandlers)
                                   /\ subs[id].topic \in Bus!Topics
      BY <1>2, <3>1, EventMatches DEF Live
    <3>5. Subscribed'
      BY <1>2, <2>1, <3>1, <3>2, <3>4 DEF Subscribed, Bus!Matches, Reaches
    <3> QED
      BY <1>3, <1>7, <2>2, <3>3, <3>5
  <2>5. CASE ~(tenancy # "released" /\ m.kind \in {"subscribe", "unsubscribe"})
    <3>1. subscriptions' = subscriptions /\ since' = since
      BY <1>5, <2>5
    <3>2. HeardSoFar' /\ Subscribed'
      BY <1>2, <2>1, <3>1, HearingStays DEF HearingKept
    <3>3. BusTyped'
      BY <1>2, <1>3, <1>6, <2>1, <3>1 DEF BusTyped
    <3> QED
      BY <1>3, <1>7, <2>2, <3>2, <3>3
  <2> QED
    BY <2>3, <2>4, <2>5
<1> QED
  BY <1>8, <1>9

LEMMA BusRespond == ASSUME BusInv, NEW r \in awaiting, Bus!Respond(r) PROVE BusInv'
<1> USE DEF BusInv
<1>1. r \in 1..asked /\ r \in Nat
  BY DEF BusTyped
<1> DEFINE m == [kind |-> "response", id |-> r, of |-> r]
<1>2. /\ m \in WorkerMsgs /\ m.kind = "response" /\ WorkerOk(m)
  BY <1>1 DEF WorkerMsgs, WorkerOk
<1>3. /\ awaiting' = awaiting \ {r} /\ toWorker' = Append(toWorker, m)
      /\ UNCHANGED <<tenant, tenancy, subscriptions, since, emitted, subs, heard, busHandlers, toMain,
                     events, asked, pending, answered>>
  BY DEF Bus!Respond, Bus!Response, Bus!mainVars, Bus!workerVars
<1> HIDE DEF m
<1>4. \A id \in 1..Len(subs) : (Live(id)' => Live(id)) /\ subs[id].plugin <= tenant'
  BY <1>3 DEF Live, Subscribed
<1>5. toWorker' \in Seq(WorkerMsgs) /\ WorkerWire' /\ HeardSoFar' /\ Subscribed'
  BY <1>2, <1>3, <1>4, WorkerWireGrows
<1>6. BusTyped' /\ Settled'
  BY <1>3, <1>5 DEF BusTyped, Settled
<1> QED
  BY <1>3, <1>5, <1>6, MainWireStays

LEMMA BusNextSecond == ASSUME BusInv, Bus!NextSecond PROVE BusInv'
<1> USE DEF BusInv
<1>1. /\ emitted' = 0
      /\ UNCHANGED <<tenant, tenancy, subscriptions, since, subs, heard, busHandlers, toMain, toWorker,
                     events, asked, pending, awaiting, answered>>
  BY DEF Bus!NextSecond, Bus!workerVars, Bus!wire, Bus!requestVars
<1>2. BusTyped' /\ Settled' /\ MainWire' /\ WorkerWire'
  BY <1>1, MainWireStays DEF BusTyped, Settled, WorkerWire, WorkerOk
<1>3. HeardSoFar' /\ Subscribed'
  BY <1>1, HearingStays DEF HearingKept
<1> QED
  BY <1>2, <1>3

LEMMA BusRelease == ASSUME BusInv, Bus!Release PROVE BusInv'
<1> USE DEF BusInv
<1> DEFINE m == [kind |-> "reset"]
<1>1. m \in WorkerMsgs /\ m.kind = "reset" /\ WorkerOk(m)
  BY DEF WorkerMsgs, WorkerOk
<1>2. /\ tenancy' = "resetting" /\ subscriptions' = [t \in Bus!Topics |-> {}] /\ toWorker' = Append(toWorker, m)
      /\ UNCHANGED <<tenant, since, emitted, subs, heard, busHandlers, toMain,
                     events, asked, pending, awaiting, answered>>
  BY DEF Bus!Release, Bus!workerVars, Bus!requestVars
<1> HIDE DEF m
<1>3. \A id \in 1..Len(subs) : ~Live(id)' /\ subs[id].plugin <= tenant'
  BY <1>2 DEF Live, Subscribed
<1>4. toWorker' \in Seq(WorkerMsgs) /\ WorkerWire' /\ HeardSoFar' /\ Subscribed'
  BY <1>1, <1>2, <1>3, WorkerWireGrows
<1>5. BusTyped' /\ Settled'
  BY <1>2, <1>4 DEF BusTyped, Settled
<1> QED
  BY <1>2, <1>4, <1>5, MainWireStays

\* Nobody is live in a worker that is not owned, and none of another plugin.
LEMMA NobodyLive ==
    ASSUME BusInv, UNCHANGED <<since, subs, heard, busHandlers, toWorker, events>>,
           tenancy' # "owned" \/ tenant' > tenant, tenant' \in Nat, tenant' >= tenant
    PROVE  HeardSoFar' /\ Subscribed'
<1>1. HeardSoFar'
  BY DEF BusInv, HeardSoFar, Hears, Bus!Matches
<1>2. ASSUME NEW id \in 1..Len(subs) PROVE ~Live(id)' /\ subs[id].plugin <= tenant'
  <2>1. subs[id].plugin <= tenant /\ subs[id].plugin \in Nat /\ tenant \in Nat
    BY EventMatches DEF BusInv, Subscribed, BusTyped
  <2> QED
    BY <2>1 DEF Live
<1> QED
  BY <1>1, <1>2 DEF Subscribed

LEMMA BusReleased == ASSUME BusInv, Bus!Released PROVE BusInv'
<1> USE DEF BusInv
<1>1. /\ tenancy' = "released" /\ subscriptions' = [t \in Bus!Topics |-> {}]
      /\ UNCHANGED <<tenant, since, emitted, subs, heard, busHandlers, toMain, toWorker,
                     events, asked, pending, awaiting, answered>>
  BY DEF Bus!Released, Bus!workerVars, Bus!wire, Bus!requestVars
<1>2. HeardSoFar' /\ Subscribed'
  BY <1>1, NobodyLive DEF BusTyped
<1>3. BusTyped' /\ Settled' /\ MainWire' /\ WorkerWire'
  BY <1>1, MainWireStays DEF BusTyped, Settled, WorkerWire, WorkerOk
<1> QED
  BY <1>2, <1>3

LEMMA BusResetComplete == ASSUME BusInv, Bus!ResetComplete PROVE BusInv'
<1> USE DEF BusInv
<1>1. /\ toMain # <<>> /\ toMain' = Tail(toMain)
      /\ UNCHANGED <<tenant, since, emitted, subs, heard, busHandlers, toWorker,
                     events, asked, pending, awaiting, answered>>
  BY DEF Bus!ResetComplete, Bus!workerVars, Bus!requestVars
<1>2. toMain' \in Seq(MainMsgs) /\ MainWire'
  BY <1>1, MainTakes
<1>3. WorkerWire' /\ Settled'
  BY <1>1 DEF WorkerWire, WorkerOk, Settled
<1>4. CASE tenancy = "resetting"
  <2>1. tenancy' = "released" /\ subscriptions' = [t \in Bus!Topics |-> {}]
    BY <1>4 DEF Bus!ResetComplete
  <2>2. HeardSoFar' /\ Subscribed'
    BY <1>1, <2>1, NobodyLive DEF BusTyped
  <2>3. BusTyped'
    BY <1>1, <1>2, <2>1 DEF BusTyped
  <2> QED
    BY <1>2, <1>3, <2>2, <2>3
<1>5. CASE tenancy # "resetting"
  <2>1. UNCHANGED <<tenancy, subscriptions>>
    BY <1>5 DEF Bus!ResetComplete
  <2>2. HeardSoFar' /\ Subscribed'
    BY <1>1, <2>1, HearingStays DEF HearingKept
  <2>3. BusTyped'
    BY <1>1, <1>2, <2>1 DEF BusTyped
  <2> QED
    BY <1>2, <1>3, <2>2, <2>3
<1> QED
  BY <1>4, <1>5

LEMMA BusAcquire == ASSUME BusBounds, BusInv, Bus!Acquire PROVE BusInv'
<1> USE DEF BusInv
<1>1. /\ tenancy' = "owned" /\ tenant' = tenant + 1 /\ tenant < Tenants /\ emitted' = 0
      /\ UNCHANGED <<subscriptions, since, subs, heard, busHandlers, toMain, toWorker,
                     events, asked, pending, awaiting, answered>>
  BY DEF Bus!Acquire, Bus!workerVars, Bus!wire, Bus!requestVars
<1>2. tenant' \in 1..Tenants /\ tenant' > tenant /\ tenant' >= tenant /\ tenant' \in Nat
  BY <1>1 DEF BusTyped, BusBounds
<1>3. HeardSoFar' /\ Subscribed'
  BY <1>1, <1>2, NobodyLive
<1>4. BusTyped' /\ Settled' /\ MainWire' /\ WorkerWire'
  BY <1>1, <1>2, MainWireStays DEF BusTyped, Settled, WorkerWire, WorkerOk
<1> QED
  BY <1>3, <1>4

LEMMA BusNext == BusBounds /\ BusInv /\ [Bus!Next]_Bus!vars => BusInv'
<1> SUFFICES ASSUME BusBounds, BusInv, [Bus!Next]_Bus!vars PROVE BusInv'
  OBVIOUS
<1>1. Bus!Ids = 1..Len(subs)
  BY LenProperties DEF BusInv, BusTyped, Bus!Ids
<1>2. CASE UNCHANGED Bus!vars
  <2>1. UNCHANGED <<tenant, tenancy, subscriptions, since, emitted, busHandlers, subs, heard, toMain,
                    toWorker, events, asked, pending, awaiting, answered>>
    BY <1>2 DEF Bus!vars, Bus!mainVars, Bus!workerVars, Bus!wire, Bus!requestVars
  <2>2. HeardSoFar' /\ Subscribed'
    BY <2>1, HearingStays DEF HearingKept, BusInv
  <2>3. BusTyped' /\ Settled' /\ MainWire' /\ WorkerWire'
    BY <2>1, MainWireStays DEF BusInv, BusTyped, Settled, WorkerWire, WorkerOk
  <2> QED
    BY <2>2, <2>3 DEF BusInv
<1>3. CASE \E t \in Bus!Topics, once \in BOOLEAN : Bus!On(t, once)
  BY <1>3, BusOn
<1>4. CASE \E id \in Bus!Ids : Bus!Off(id)
  BY <1>1, <1>4, BusOff
<1>5. CASE \E t \in Types \cup {Blocked} : Bus!Emit(t)
  BY <1>5, BusEmit
<1>6. CASE \E r \in pending : Bus!RequestTimeout(r)
  BY <1>6, BusTimeout
<1>7. CASE \E t \in Types : Bus!BusEvent(t)
  BY <1>7, BusEventStep
<1>8. CASE \E r \in awaiting : Bus!Respond(r)
  BY <1>8, BusRespond
<1> QED
  BY <1>2, <1>3, <1>4, <1>5, <1>6, <1>7, <1>8, BusRequest, BusWorkerReceive, BusMainReceive,
     BusNextSecond, BusRelease, BusReleased, BusResetComplete, BusAcquire DEF Bus!Next

-----------------------------------------------------------------------------
LEMMA BusHears == BusInv => Bus!HandlersHearAll
<1> SUFFICES ASSUME BusInv PROVE Bus!HandlersHearAll
  OBVIOUS
<1> USE DEF BusInv
<1>1. PICK n \in Nat : n = Len(subs) /\ Bus!Ids = 1..n
  BY LenProperties DEF BusTyped, Bus!Ids
<1>2. ASSUME NEW id \in 1..n, Live(id), NEW k \in (since[id] + 1)..Len(events), Bus!Matches(id, events[k])
      PROVE  k \in Bus!Range(heard[id]) \cup Bus!OnTheWay(id)
  <2>1. since[id] \in Int /\ since[id] >= 0 /\ Len(events) \in Nat
    BY <1>1, <1>2, ElementOfSeq, LenProperties DEF BusTyped, Live
  <2>2. k \in 1..Len(events) /\ k > since[id]
    BY <2>1
  <2>3. Reaches(id, k)
    BY <1>1, <1>2, <2>2 DEF Subscribed
  <2>4. CASE \E j \in 1..Len(heard[id]) : heard[id][j] = k
    <3>1. DOMAIN heard[id] = 1..Len(heard[id])
      BY <1>1, ElementOfSeq, LenProperties DEF BusTyped
    <3> QED
      BY <2>4, <3>1 DEF Bus!Range
  <2>5. CASE \E j \in 1..Len(toWorker) : toWorker[j].kind = "event" /\ toWorker[j].event = k
    <3>1. PICK j \in 1..Len(toWorker) : toWorker[j].kind = "event" /\ toWorker[j].event = k
      BY <2>5
    <3>2. toWorker[j].type = events[k]
      BY <3>1 DEF WorkerWire, WorkerOk
    <3>3. k \in Bus!OnTheWay(id)
      BY <1>2, <3>1, <3>2 DEF Bus!OnTheWay
    <3> QED
      BY <3>3
  <2> QED
    BY <2>3, <2>4, <2>5 DEF Reaches
<1> QED
  BY <1>1, <1>2 DEF Bus!HandlersHearAll, HeardSoFar, Hears, Live

LEMMA BusAnswers == BusInv => Bus!AnsweredByTheirs
<1> SUFFICES ASSUME BusInv, NEW r \in 1..asked
             PROVE  /\ Cardinality(answered[r]) = (IF r \in pending THEN 0 ELSE 1)
                    /\ answered[r] \subseteq {r, Bus!TimedOut}
  BY SameCounts DEF Bus!AnsweredByTheirs
<1>1. CASE r \in pending
  BY <1>1, FS_EmptySet DEF BusInv, Settled
<1>2. CASE r \notin pending
  <2>1. answered[r] = {r} \/ answered[r] = {Bus!TimedOut}
    BY <1>2 DEF BusInv, Settled
  <2>2. Cardinality({r}) = 1 /\ Cardinality({Bus!TimedOut}) = 1
    BY FS_Singleton
  <2> QED
    BY <1>2, <2>1, <2>2
<1> QED
  BY <1>1, <1>2

LEMMA BusTypes == BusInv => Bus!TypeOK
<1> SUFFICES ASSUME BusInv PROVE Bus!TypeOK
  OBVIOUS
<1> USE DEF BusInv, BusTyped
<1>1. Bus!Ids = 1..Len(subs)
  BY LenProperties DEF Bus!Ids
<1>2. DOMAIN heard = Bus!Ids /\ DOMAIN since = Bus!Ids /\ DOMAIN answered = 1..asked
  BY <1>1, LenProperties
<1> QED
  BY <1>1, <1>2 DEF Bus!TypeOK

\* A handler hears each event of its topic once, in order, and misses none that came after
\* its subscription; a request is settled once, by its own response or its timer
\* (sandbox-manager.ts, plugin-context-proxy.ts, rpc-handler.ts), for any number of plugins,
\* subscriptions, events and requests.
THEOREM PluginsHearAndGetAnswers ==
  ASSUME BusBounds
  PROVE  Bus!Init /\ [][Bus!Next]_Bus!vars => [](Bus!TypeOK /\ Bus!HandlersHearAll /\ Bus!AnsweredByTheirs)
<1>1. Bus!Init => BusInv
  BY BusBegins
<1>2. BusInv /\ [Bus!Next]_Bus!vars => BusInv'
  BY BusNext
<1> QED
  BY <1>1, <1>2, BusHears, BusAnswers, BusTypes, PTL


-----------------------------------------------------------------------------
(* The audit trail (audit-trail-writer.ts, audit-chain-verifier.ts). *)

\* A file holds an entry or more, and one older file is kept at least.
TrailBounds == MaxSize \in Nat \ {0} /\ TrailFiles \in Nat /\ TrailFiles >= 2

\* A file of lines of the first n entries, each with its own hash.
LinesOf(s, n) ==
    /\ s \in Seq({s[k] : k \in 1..Len(s)})
    /\ \A k \in 1..Len(s) : s[k] = Trail!Line(s[k].entry, s[k].prevHash) /\ s[k].entry \in 1..n

\* Each line names the one before, but for the first and those that began a chain.
ChainedBut(s, b) ==
    \A k \in 1..Len(s) :
        /\ s[k].entry \in b => k > 1
        /\ s[k].prevHash = IF k = 1 \/ s[k].entry \in b THEN Trail!Zero ELSE s[k - 1].entryHash

\* The entries of some files are in order, the oldest file first.
FilesInOrder(t) ==
    \A i, j \in Trail!Places : \A k \in 1..Len(t[i]), l \in 1..Len(t[j]) :
        i > j \/ (i = j /\ k < l) => t[i][k].entry < t[j][l].entry

\* They hold an entry.
HeldIn(t, m) == \E i \in Trail!Places : \E k \in 1..Len(t[i]) : t[i][k].entry = m

\* They hold all that followed any they hold, of n entries but those left out.
LatestIn(t, n, out) ==
    \A i \in Trail!Places : \A k \in 1..Len(t[i]) : \A m \in t[i][k].entry..n : HeldIn(t, m) \/ m \in out

TrailTyped ==
    /\ trail = [i \in Trail!Places |-> trail[i]]
    /\ \A i \in Trail!Places : LinesOf(trail[i], audited)
    /\ currentSize = Len(trail[0])
    /\ audited \in Nat /\ trouble \in Nat /\ broken \subseteq 1..audited

\* The next line goes on with the last one's hash, or begins again.
HashIsLast ==
    lastHash = Trail!Zero \/ (trail[0] # <<>> /\ lastHash = trail[0][Len(trail[0])].entryHash)

\* While nothing failed the files before one that was rotated are full, and none was
\* removed unless all are.
FullWithinTrouble ==
    trouble = 0 =>
        /\ unaudited = {} /\ Len(trail[0]) <= MaxSize
        /\ \A i \in Trail!Places \ {0} : trail[i] = <<>> \/ Len(trail[i]) = MaxSize
        /\ \A i, j \in Trail!Places \ {0} : j < i /\ trail[i] # <<>> => trail[j] # <<>>
        /\ trail[TrailFiles - 1] = <<>> => \A m \in 1..audited : HeldIn(trail, m)

TrailInv ==
    /\ TrailTyped
    /\ \A i \in Trail!Places : ChainedBut(trail[i], broken)
    /\ HashIsLast
    /\ FilesInOrder(trail) /\ LatestIn(trail, audited, unaudited)
    /\ FullWithinTrouble

-----------------------------------------------------------------------------
(* Files. *)

LEMMA LinesAre ==
    ASSUME NEW s, NEW n, LinesOf(s, n)
    PROVE  /\ Len(s) \in Nat /\ DOMAIN s = 1..Len(s)
           /\ s \in Seq({s[k] : k \in 1..Len(s)})
           /\ Len(s) = 0 <=> s = <<>>
BY EmptySeq, LenProperties DEF LinesOf

\* A line at the end of a file.
LEMMA LineAdded ==
    ASSUME NEW s, NEW n \in Nat, LinesOf(s, n), NEW h
    PROVE  /\ LinesOf(Append(s, Trail!Line(n + 1, h)), n + 1)
           /\ Len(Append(s, Trail!Line(n + 1, h))) = Len(s) + 1
           /\ Append(s, Trail!Line(n + 1, h))[Len(s) + 1] = Trail!Line(n + 1, h)
           /\ \A k \in 1..Len(s) : Append(s, Trail!Line(n + 1, h))[k] = s[k]
<1>1. PICK x : x = Trail!Line(n + 1, h)
  OBVIOUS
<1>2. x.entry = n + 1 /\ x = Trail!Line(x.entry, x.prevHash)
  BY <1>1 DEF Trail!Line
<1>3. PICK c \in Nat : c = Len(s)
  BY LinesAre
<1>4. PICK S : S = {s[k] : k \in 1..c} \cup {x}
  OBVIOUS
<1>5. s \in Seq(S)
  <2>1. s \in Seq({s[k] : k \in 1..Len(s)})
    BY LinesAre
  <2>2. s \in [1..c -> {s[k] : k \in 1..c}]
    BY <1>3, <2>1, LenProperties
  <2>3. s \in [1..c -> S]
    BY <1>4, <2>2
  <2> QED
    BY <2>3, SeqDef
<1>6. PICK t : t = Append(s, x)
  OBVIOUS
<1>7. t \in Seq(S) /\ Len(t) = c + 1 /\ t[c + 1] = x /\ \A k \in 1..c : t[k] = s[k]
  BY <1>3, <1>4, <1>5, <1>6, AppendProperties
<1>8. t \in Seq({t[k] : k \in 1..Len(t)})
  <2>1. t \in [1..(c + 1) -> S]
    BY <1>7, LenProperties, SeqDef
  <2>2. t \in [1..(c + 1) -> {t[k] : k \in 1..(c + 1)}]
    BY <2>1
  <2> QED
    BY <1>7, <2>2, SeqDef
<1>9. ASSUME NEW k \in 1..Len(t) PROVE t[k] = Trail!Line(t[k].entry, t[k].prevHash) /\ t[k].entry \in 1..(n + 1)
  <2>1. CASE k = c + 1
    BY <1>2, <1>7, <2>1
  <2>2. CASE k # c + 1
    <3>1. k \in 1..c
      BY <1>7, <2>2
    <3>2. s[k] = Trail!Line(s[k].entry, s[k].prevHash) /\ s[k].entry \in 1..n
      BY <1>3, <3>1 DEF LinesOf
    <3> QED
      BY <1>7, <3>1, <3>2
  <2> QED
    BY <2>1, <2>2
<1> QED
  BY <1>1, <1>3, <1>6, <1>7, <1>8, <1>9 DEF LinesOf

\* A file of one line, and an empty one.
LEMMA OneLine ==
    ASSUME NEW n \in Nat, NEW h
    PROVE  /\ LinesOf(<<Trail!Line(n + 1, h)>>, n + 1)
           /\ Len(<<Trail!Line(n + 1, h)>>) = 1 /\ <<Trail!Line(n + 1, h)>>[1] = Trail!Line(n + 1, h)
<1>1. PICK x : x = Trail!Line(n + 1, h)
  OBVIOUS
<1>2. x.entry = n + 1 /\ x = Trail!Line(x.entry, x.prevHash)
  BY <1>1 DEF Trail!Line
<1>3. <<x>> \in Seq({x}) /\ Len(<<x>>) = 1 /\ <<x>>[1] = x
  OBVIOUS
<1>4. {<<x>>[k] : k \in 1..Len(<<x>>)} = {x}
  BY <1>3
<1> QED
  BY <1>1, <1>2, <1>3, <1>4 DEF LinesOf

LEMMA NoLine == ASSUME NEW n PROVE LinesOf(<<>>, n) /\ Len(<<>>) = 0
BY EmptySeq DEF LinesOf

LEMMA LinesOfMore ==
    ASSUME NEW s, NEW n \in Nat, LinesOf(s, n)
    PROVE  LinesOf(s, n + 1)
BY DEF LinesOf

\* A chain stays one when the entry after all of it begins another.
LEMMA ChainedStill ==
    ASSUME NEW s, NEW n \in Nat, LinesOf(s, n), NEW b, ChainedBut(s, b), NEW c,
           b \subseteq c, c \subseteq b \cup {n + 1}
    PROVE  ChainedBut(s, c)
<1>1. \A k \in 1..Len(s) : s[k].entry \in b <=> s[k].entry \in c
  BY DEF LinesOf
<1> QED
  BY <1>1 DEF ChainedBut

\* A line that goes on with the chain, or begins another and is known for it.
LEMMA ChainGrows ==
    ASSUME NEW s, NEW n \in Nat, LinesOf(s, n), NEW b, ChainedBut(s, b), NEW c,
           b \subseteq 1..n, b \subseteq c, c \subseteq b \cup {n + 1}, NEW h,
           n + 1 \in c => s # <<>>,
           h = IF s = <<>> \/ n + 1 \in c THEN Trail!Zero ELSE s[Len(s)].entryHash
    PROVE  ChainedBut(Append(s, Trail!Line(n + 1, h)), c)
<1>1. PICK x : x = Trail!Line(n + 1, h)
  OBVIOUS
<1>2. PICK t : t = Append(s, x)
  OBVIOUS
<1>3. PICK l \in Nat : l = Len(s)
  BY LinesAre
<1>4. Len(t) = l + 1 /\ t[l + 1] = x /\ \A k \in 1..l : t[k] = s[k]
  BY <1>1, <1>2, <1>3, LineAdded
<1>5. x.entry = n + 1 /\ x.prevHash = h
  BY <1>1 DEF Trail!Line
<1>6. ChainedBut(s, c)
  BY ChainedStill
<1>7. l = 0 <=> s = <<>>
  BY <1>3, LinesAre
<1>8. ASSUME NEW k \in 1..(l + 1)
      PROVE  /\ t[k].entry \in c => k > 1
             /\ t[k].prevHash = IF k = 1 \/ t[k].entry \in c THEN Trail!Zero ELSE t[k - 1].entryHash
  <2>1. CASE k = l + 1
    <3>1. t[k].entry = n + 1 /\ t[k].prevHash = h
      BY <1>4, <1>5, <2>1
    <3>2. k - 1 = l /\ (k = 1 <=> s = <<>>)
      BY <1>7, <2>1
    <3>3. l \in 1..l \/ s = <<>>
      BY <1>7
    <3> QED
      BY <1>3, <1>4, <3>1, <3>2, <3>3
  <2>2. CASE k # l + 1
    <3>1. k \in 1..l
      BY <2>2
    <3>2. k = 1 \/ k - 1 \in 1..l
      BY <3>1
    <3> QED
      BY <1>3, <1>4, <1>6, <3>1, <3>2 DEF ChainedBut
  <2> QED
    BY <2>1, <2>2
<1> QED
  BY <1>1, <1>2, <1>4, <1>8 DEF ChainedBut

-----------------------------------------------------------------------------
(* Files that move. *)

\* What files of the first n entries become, t, when each holds what the one at o of it held,
\* the current file an entry more, and only the oldest are removed.
FilesMove(t, o, n) ==
    /\ o \in [Trail!Places -> Trail!Places]
    /\ \A i \in Trail!Places : Len(t[i]) \in Nat
    /\ \A i \in Trail!Places : \A k \in 1..Len(t[i]) :
          \/ i = 0 /\ k = Len(t[0]) /\ t[i][k].entry = n + 1
          \/ k \in 1..Len(trail[o[i]]) /\ t[i][k] = trail[o[i]][k]
    /\ \A i, j \in Trail!Places : i > j =>
          \/ o[i] > o[j] \/ t[i] = <<>>
          \/ j = 0 /\ \A l \in 1..Len(t[0]) : l = Len(t[0]) /\ t[0][l].entry = n + 1
    /\ \A i \in Trail!Places : \A k \in 1..Len(trail[i]) :
          \/ HeldIn(t, trail[i][k].entry)
          \/ \A j \in Trail!Places : i > o[j] \/ t[j] = <<>>
                                \/ \A l \in 1..Len(t[j]) : t[j][l].entry = n + 1

LEMMA MovedInOrder ==
    ASSUME NEW n \in Nat, \A i \in Trail!Places : LinesOf(trail[i], n), FilesInOrder(trail),
           NEW t, NEW o, FilesMove(t, o, n), TrailBounds
    PROVE  FilesInOrder(t)
<1>1. SUFFICES ASSUME NEW i \in Trail!Places, NEW j \in Trail!Places,
                      NEW k \in 1..Len(t[i]), NEW l \in 1..Len(t[j]),
                      i > j \/ (i = j /\ k < l)
               PROVE  t[i][k].entry < t[j][l].entry
  BY DEF FilesInOrder
<1>2. i \in Nat /\ j \in Nat /\ Len(t[i]) \in Nat /\ Len(t[j]) \in Nat /\ Len(t[0]) \in Nat
  BY DEF FilesMove, Trail!Places, TrailBounds
<1>3. ~(i = 0 /\ k = Len(t[0]))
  BY <1>1, <1>2
<1>4. o[i] \in Trail!Places /\ k \in 1..Len(trail[o[i]]) /\ t[i][k] = trail[o[i]][k]
  BY <1>3 DEF FilesMove
<1>5. t[i][k].entry \in 1..n
  BY <1>4 DEF LinesOf
<1>6. CASE t[j][l].entry = n + 1
  BY <1>5, <1>6
<1>7. CASE t[j][l].entry # n + 1
  <2>1. o[j] \in Trail!Places /\ l \in 1..Len(trail[o[j]]) /\ t[j][l] = trail[o[j]][l]
    BY <1>7 DEF FilesMove
  <2>2. t[i] # <<>>
    BY <1>2, EmptySeq
  <2>3. o[i] > o[j] \/ (o[i] = o[j] /\ k < l)
    BY <1>1, <1>7, <2>2 DEF FilesMove
  <2> QED
    BY <1>4, <2>1, <2>3 DEF FilesInOrder
<1> QED
  BY <1>6, <1>7

LEMMA MovedIsLatest ==
    ASSUME NEW n \in Nat, \A i \in Trail!Places : LinesOf(trail[i], n), FilesInOrder(trail),
           NEW t, NEW o, FilesMove(t, o, n), TrailBounds,
           NEW out, LatestIn(trail, n, out), NEW out2, out \subseteq out2,
           HeldIn(t, n + 1) \/ n + 1 \in out2
    PROVE  LatestIn(t, n + 1, out2)
<1>1. SUFFICES ASSUME NEW i \in Trail!Places, NEW k \in 1..Len(t[i]), NEW m \in t[i][k].entry..(n + 1),
                      m # n + 1, ~HeldIn(t, m)
               PROVE  m \in out
  BY DEF LatestIn
<1>2. t[i][k].entry # n + 1
  BY <1>1
<1>3. o[i] \in Trail!Places /\ k \in 1..Len(trail[o[i]]) /\ t[i][k] = trail[o[i]][k]
  BY <1>2 DEF FilesMove
<1>4. m \in trail[o[i]][k].entry..n
  BY <1>1, <1>3 DEF LinesOf
<1>5. HeldIn(trail, m) \/ m \in out
  BY <1>3, <1>4 DEF LatestIn
<1>6. ASSUME HeldIn(trail, m) PROVE FALSE
  <2>1. PICK j \in Trail!Places : \E l \in 1..Len(trail[j]) : trail[j][l].entry = m
    BY <1>6 DEF HeldIn
  <2>2. PICK l \in 1..Len(trail[j]) : trail[j][l].entry = m
    BY <2>1
  <2>3. j > o[i] \/ t[i] = <<>> \/ \A ll \in 1..Len(t[i]) : t[i][ll].entry = n + 1
    BY <1>1, <2>2 DEF FilesMove
  <2>4. t[i] # <<>>
    BY EmptySeq DEF FilesMove
  <2>5. j > o[i]
    BY <1>2, <2>3, <2>4
  <2>6. trail[j][l].entry < trail[o[i]][k].entry
    BY <1>3, <2>5 DEF FilesInOrder
  <2>7. PICK e : e = trail[o[i]][k].entry
    OBVIOUS
  <2>8. e \in 1..n
    BY <1>3, <2>7 DEF LinesOf
  <2>9. m \in e..n /\ m < e
    BY <1>4, <2>2, <2>6, <2>7
  <2> QED
    BY <2>8, <2>9
<1> QED
  BY <1>5, <1>6

-----------------------------------------------------------------------------
(* Steps. *)

LEMMA TrailBegins == ASSUME TrailBounds PROVE Trail!Init => TrailInv
<1> SUFFICES ASSUME Trail!Init PROVE TrailInv
  OBVIOUS
<1>1. 0 \in Trail!Places /\ \A i \in Trail!Places : trail[i] = <<>> /\ Len(trail[i]) = 0 /\ LinesOf(trail[i], 0)
  BY NoLine DEF Trail!Init, Trail!Places, TrailBounds
<1>2. TrailTyped
  BY <1>1 DEF Trail!Init, TrailTyped
<1>3. (\A i \in Trail!Places : ChainedBut(trail[i], broken)) /\ HashIsLast
      /\ FilesInOrder(trail) /\ LatestIn(trail, audited, unaudited)
  BY <1>1 DEF Trail!Init, ChainedBut, HashIsLast, FilesInOrder, LatestIn
<1>4. FullWithinTrouble
  BY <1>1 DEF Trail!Init, FullWithinTrouble, TrailBounds
<1> QED
  BY <1>2, <1>3, <1>4 DEF TrailInv

LEMMA PlacesAre ==
    ASSUME TrailBounds
    PROVE  /\ 0 \in Trail!Places /\ 1 \in Trail!Places /\ TrailFiles - 1 \in Trail!Places
           /\ \A i \in Trail!Places : i \in Nat /\ i <= TrailFiles - 1 /\ (i # 0 => i - 1 \in Trail!Places)
           /\ \A i \in Trail!Places : i # TrailFiles - 1 => i + 1 \in Trail!Places
BY DEF Trail!Places, TrailBounds

\* What a rotation leaves, the current file being some lines of the next entry.
LEMMA RotatedMoves ==
    ASSUME TrailBounds, TrailTyped, NEW t, NEW front,
           t = [i \in Trail!Places |-> IF i = 0 THEN front ELSE trail[i - 1]],
           LinesOf(front, audited + 1), Len(front) <= 1,
           \A k \in 1..Len(front) : front[k].entry = audited + 1
    PROVE  /\ FilesMove(t, [i \in Trail!Places |-> IF i = 0 THEN 0 ELSE i - 1], audited)
           /\ \A i \in Trail!Places : LinesOf(t[i], audited + 1)
<1>1. PICK o : o = [i \in Trail!Places |-> IF i = 0 THEN 0 ELSE i - 1]
  OBVIOUS
<1>2. o \in [Trail!Places -> Trail!Places] /\ o[0] = 0 /\ \A i \in Trail!Places : i # 0 => o[i] = i - 1
  BY <1>1, PlacesAre
<1>3. t[0] = front /\ \A i \in Trail!Places : i # 0 => t[i] = trail[i - 1]
  BY PlacesAre
<1>4. ASSUME NEW i \in Trail!Places PROVE LinesOf(t[i], audited + 1)
  BY <1>3, PlacesAre, LinesOfMore DEF TrailTyped
<1>5. \A i \in Trail!Places : Len(t[i]) \in Nat
  BY <1>4, LinesAre
<1>6. ASSUME NEW i \in Trail!Places, NEW k \in 1..Len(t[i])
      PROVE  \/ i = 0 /\ k = Len(t[0]) /\ t[i][k].entry = audited + 1
             \/ k \in 1..Len(trail[o[i]]) /\ t[i][k] = trail[o[i]][k]
  BY <1>2, <1>3, <1>5, PlacesAre
<1>7. ASSUME NEW i \in Trail!Places, NEW j \in Trail!Places, i > j
      PROVE  \/ o[i] > o[j] \/ t[i] = <<>>
             \/ j = 0 /\ \A l \in 1..Len(t[0]) : l = Len(t[0]) /\ t[0][l].entry = audited + 1
  BY <1>2, <1>3, <1>5, <1>7, PlacesAre
<1>8. ASSUME NEW i \in Trail!Places, NEW k \in 1..Len(trail[i])
      PROVE  \/ HeldIn(t, trail[i][k].entry)
             \/ \A j \in Trail!Places : i > o[j] \/ t[j] = <<>>
                                   \/ \A l \in 1..Len(t[j]) : t[j][l].entry = audited + 1
  <2>1. CASE i = TrailFiles - 1
    <3>1. ASSUME NEW j \in Trail!Places PROVE i > o[j]
      <4>1. j \in Nat /\ j <= i /\ i >= 1
        BY <2>1, PlacesAre DEF TrailBounds
      <4> QED
        BY <1>2, <4>1, PlacesAre
    <3> QED
      BY <3>1
  <2>2. CASE i # TrailFiles - 1
    <3>1. i + 1 \in Trail!Places /\ i + 1 # 0 /\ (i + 1) - 1 = i
      BY <2>2, PlacesAre
    <3>2. t[i + 1] = trail[i]
      BY <1>3, <3>1
    <3> QED
      BY <3>1, <3>2 DEF HeldIn
  <2> QED
    BY <2>1, <2>2
<1> QED
  BY <1>1, <1>2, <1>4, <1>5, <1>6, <1>7, <1>8 DEF FilesMove

\* What another line does.
LEMMA AddedMoves ==
    ASSUME TrailBounds, TrailTyped, NEW t, NEW h,
           t = [trail EXCEPT ![0] = Append(@, Trail!Line(audited + 1, h))]
    PROVE  /\ FilesMove(t, [i \in Trail!Places |-> i], audited)
           /\ \A i \in Trail!Places : LinesOf(t[i], audited + 1)
           /\ HeldIn(t, audited + 1)
           /\ \A m \in 1..audited : HeldIn(trail, m) => HeldIn(t, m)
           /\ Len(t[0]) = Len(trail[0]) + 1 /\ t[0] # <<>>
           /\ t[0][Len(t[0])] = Trail!Line(audited + 1, h)
<1>1. PICK o : o = [i \in Trail!Places |-> i]
  OBVIOUS
<1>2. o \in [Trail!Places -> Trail!Places] /\ \A i \in Trail!Places : o[i] = i
  BY <1>1
<1>3. t[0] = Append(trail[0], Trail!Line(audited + 1, h)) /\ \A i \in Trail!Places : i # 0 => t[i] = trail[i]
  BY PlacesAre DEF TrailTyped
<1>4. LinesOf(trail[0], audited) /\ audited \in Nat
  BY PlacesAre DEF TrailTyped
<1>5. /\ LinesOf(t[0], audited + 1) /\ Len(t[0]) = Len(trail[0]) + 1
      /\ t[0][Len(trail[0]) + 1] = Trail!Line(audited + 1, h)
      /\ \A k \in 1..Len(trail[0]) : t[0][k] = trail[0][k]
  BY <1>3, <1>4, LineAdded
<1>6. ASSUME NEW i \in Trail!Places PROVE LinesOf(t[i], audited + 1)
  BY <1>3, <1>5, LinesOfMore DEF TrailTyped
<1>7. \A i \in Trail!Places : Len(t[i]) \in Nat /\ Len(trail[i]) \in Nat
  BY <1>6, LinesAre DEF TrailTyped
<1>8. Trail!Line(audited + 1, h).entry = audited + 1
  BY DEF Trail!Line
<1>9. ASSUME NEW i \in Trail!Places, NEW k \in 1..Len(t[i])
      PROVE  \/ i = 0 /\ k = Len(t[0]) /\ t[i][k].entry = audited + 1
             \/ k \in 1..Len(trail[o[i]]) /\ t[i][k] = trail[o[i]][k]
  <2>1. CASE i = 0
    BY <1>2, <1>5, <1>7, <1>8, <2>1, PlacesAre
  <2>2. CASE i # 0
    BY <1>2, <1>3, <2>2
  <2> QED
    BY <2>1, <2>2
<1>10. \A i, j \in Trail!Places : i > j => o[i] > o[j]
  BY <1>2
<1>11. ASSUME NEW i \in Trail!Places, NEW k \in 1..Len(trail[i]) PROVE HeldIn(t, trail[i][k].entry)
  <2>1. k \in 1..Len(t[i]) /\ t[i][k] = trail[i][k]
    BY <1>3, <1>5, <1>7, PlacesAre
  <2> QED
    BY <2>1 DEF HeldIn
<1>12. HeldIn(t, audited + 1) /\ t[0] # <<>> /\ t[0][Len(t[0])] = Trail!Line(audited + 1, h)
  <2>1. Len(t[0]) \in 1..Len(t[0]) /\ Len(t[0]) # 0
    BY <1>5, <1>7, PlacesAre
  <2> QED
    BY <1>5, <1>8, <2>1, PlacesAre, EmptySeq DEF HeldIn
<1>13. \A m \in 1..audited : HeldIn(trail, m) => HeldIn(t, m)
  BY <1>11 DEF HeldIn
<1>14. FilesMove(t, o, audited)
  BY <1>2, <1>7, <1>9, <1>10, <1>11 DEF FilesMove
<1> QED
  BY <1>1, <1>5, <1>6, <1>12, <1>13, <1>14

LEMMA TypedAgain ==
    ASSUME NEW n \in Nat, trail' = [i \in Trail!Places |-> trail'[i]], audited' = n,
           \A i \in Trail!Places : LinesOf(trail'[i], n), currentSize' = Len(trail'[0]),
           trouble' \in Nat, broken' \subseteq 1..n
    PROVE  TrailTyped'
BY DEF TrailTyped

\* An entry in the current file.
LEMMA TrailAuditsOn ==
    ASSUME TrailBounds, TrailInv, Trail!Audit, currentSize + 1 <= MaxSize
    PROVE  TrailInv'
<1> USE DEF TrailInv
<1>1. PICK n \in Nat : n = audited
  BY DEF TrailTyped
<1>2. /\ trail' = [trail EXCEPT ![0] = Append(@, Trail!Line(n + 1, lastHash))]
      /\ currentSize' = currentSize + 1 /\ lastHash' = Trail!Line(n + 1, lastHash).entryHash
      /\ broken' = broken \cup (IF lastHash = Trail!Zero /\ trail[0] # <<>> THEN {n + 1} ELSE {})
      /\ audited' = n + 1 /\ UNCHANGED <<unaudited, trouble>>
  <2>1. currentSize \in Nat
    BY LinesAre, PlacesAre DEF TrailTyped
  <2>2. ~(currentSize + 1 > MaxSize)
    BY <2>1 DEF TrailBounds
  <2> QED
    BY <1>1, <2>2 DEF Trail!Audit, Trail!Append1
<1>3. PICK o : o = [i \in Trail!Places |-> i]
  OBVIOUS
<1>4. /\ FilesMove(trail', o, n) /\ \A i \in Trail!Places : LinesOf(trail'[i], n + 1)
      /\ HeldIn(trail', n + 1) /\ \A m \in 1..n : HeldIn(trail, m) => HeldIn(trail', m)
      /\ Len(trail'[0]) = Len(trail[0]) + 1 /\ trail'[0] # <<>>
      /\ trail'[0][Len(trail'[0])] = Trail!Line(n + 1, lastHash)
  BY <1>1, <1>2, <1>3, AddedMoves
<1>5. /\ trail'[0] = Append(trail[0], Trail!Line(n + 1, lastHash))
      /\ \A i \in Trail!Places : i # 0 => trail'[i] = trail[i]
  BY <1>2, PlacesAre DEF TrailTyped
<1>6. TrailTyped'
  <2>1. trail' = [i \in Trail!Places |-> trail'[i]]
    BY <1>2 DEF TrailTyped
  <2>2. broken' \subseteq 1..(n + 1)
    BY <1>1, <1>2 DEF TrailTyped
  <2>3. currentSize' = Len(trail'[0])
    BY <1>2, <1>4 DEF TrailTyped
  <2> QED
    BY <1>1, <1>2, <1>4, <2>1, <2>2, <2>3 DEF TrailTyped
<1>7. ASSUME NEW i \in Trail!Places PROVE ChainedBut(trail'[i], broken')
  <2>1. /\ LinesOf(trail[i], n) /\ ChainedBut(trail[i], broken) /\ broken \subseteq 1..n
        /\ broken \subseteq broken' /\ broken' \subseteq broken \cup {n + 1}
    BY <1>1, <1>2 DEF TrailTyped
  <2>2. CASE i # 0
    BY <1>5, <2>1, <2>2, ChainedStill
  <2>3. CASE i = 0
    <3>1. n + 1 \in broken' <=> lastHash = Trail!Zero /\ trail[0] # <<>>
      BY <1>2, <2>1
    <3>2. lastHash = IF trail[0] = <<>> \/ n + 1 \in broken' THEN Trail!Zero
                     ELSE trail[0][Len(trail[0])].entryHash
      BY <3>1 DEF HashIsLast
    <3> QED
      BY <1>5, <2>1, <2>3, <3>1, <3>2, ChainGrows
  <2> QED
    BY <2>2, <2>3
<1>8. HashIsLast'
  BY <1>2, <1>4 DEF HashIsLast
<1>9. FilesInOrder(trail') /\ LatestIn(trail', n + 1, unaudited')
  <2>1. \A i \in Trail!Places : LinesOf(trail[i], n)
    BY <1>1 DEF TrailTyped
  <2>2. unaudited \subseteq unaudited'
    BY <1>2
  <2> QED
    BY <1>1, <1>4, <2>1, <2>2, MovedInOrder, MovedIsLatest
<1>10. FullWithinTrouble'
  <2>1. SUFFICES ASSUME trouble' = 0 PROVE FullWithinTrouble'
    BY DEF FullWithinTrouble
  <2>2. trouble = 0
    BY <1>2, <2>1
  <2>3. /\ unaudited' = {} /\ Len(trail'[0]) <= MaxSize
    BY <1>2, <1>4, <2>2 DEF FullWithinTrouble, TrailTyped
  <2>4. trail'[TrailFiles - 1] = <<>> => \A m \in 1..(n + 1) : HeldIn(trail', m)
    BY <1>1, <1>4, <1>5, <2>2, PlacesAre DEF FullWithinTrouble, TrailBounds
  <2> QED
    BY <1>2, <1>5, <2>2, <2>3, <2>4, PlacesAre DEF FullWithinTrouble
<1> QED
  BY <1>1, <1>2, <1>6, <1>7, <1>8, <1>9, <1>10

\* An entry after a rotation, or none when it could not be written.
LEMMA TrailRotates ==
    ASSUME TrailBounds, TrailInv, NEW front, currentSize + 1 > MaxSize,
           trail' = [i \in Trail!Places |-> IF i = 0 THEN front ELSE trail[i - 1]],
           audited' = audited + 1, broken' = broken, currentSize' = Len(front),
           \/ /\ front = <<Trail!Chained(audited + 1)>> /\ lastHash' = Trail!Chained(audited + 1).entryHash
              /\ UNCHANGED <<unaudited, trouble>>
           \/ /\ front = <<>> /\ lastHash' = Trail!Zero
              /\ unaudited' = unaudited \cup {audited + 1} /\ trouble' = trouble + 1
    PROVE  TrailInv'
<1> USE DEF TrailInv
<1>1. PICK n \in Nat : n = audited
  BY DEF TrailTyped
<1>2. /\ LinesOf(front, n + 1) /\ Len(front) <= 1 /\ Len(front) \in Nat
      /\ \A k \in 1..Len(front) : k = 1 /\ front[k] = Trail!Line(n + 1, Trail!Zero)
  <2>1. CASE front = <<Trail!Line(n + 1, Trail!Zero)>>
    BY <2>1, OneLine
  <2>2. CASE front = <<>>
    BY <2>2, NoLine
  <2> QED
    BY <1>1, <2>1, <2>2 DEF Trail!Chained
<1>3. Trail!Line(n + 1, Trail!Zero).entry = n + 1 /\ Trail!Line(n + 1, Trail!Zero).prevHash = Trail!Zero
  BY DEF Trail!Line
<1>4. PICK o : o = [i \in Trail!Places |-> IF i = 0 THEN 0 ELSE i - 1]
  OBVIOUS
<1>5. FilesMove(trail', o, n) /\ \A i \in Trail!Places : LinesOf(trail'[i], n + 1)
  BY <1>1, <1>2, <1>3, <1>4, RotatedMoves
<1>6. /\ trail'[0] = front /\ \A i \in Trail!Places : i # 0 => trail'[i] = trail[i - 1] /\ i - 1 \in Trail!Places
      /\ trail' = [i \in Trail!Places |-> trail'[i]]
  BY PlacesAre
<1>7. broken \subseteq 1..n /\ \A i \in Trail!Places : LinesOf(trail[i], n) /\ ChainedBut(trail[i], broken)
  BY <1>1 DEF TrailTyped
<1>8. TrailTyped'
  <2>1. trouble' \in Nat
    BY DEF TrailTyped
  <2>2. broken' \subseteq 1..(n + 1)
    BY <1>7
  <2>3. trail' = [i \in Trail!Places |-> trail'[i]]
    BY <1>6
  <2>4. currentSize' = Len(trail'[0]) /\ audited' = n + 1 /\ \A i \in Trail!Places : LinesOf(trail'[i], n + 1)
    BY <1>1, <1>5, <1>6
  <2> QED
    BY <2>1, <2>2, <2>3, <2>4, TypedAgain
<1>9. ASSUME NEW i \in Trail!Places PROVE ChainedBut(trail'[i], broken')
  <2>1. CASE i # 0
    BY <1>6, <1>7, <2>1
  <2>2. CASE i = 0
    <3>1. n + 1 \notin broken
      BY <1>7
    <3> QED
      BY <1>2, <1>3, <1>6, <2>2, <3>1 DEF ChainedBut
  <2> QED
    BY <2>1, <2>2
<1>10. HashIsLast'
  BY <1>1, <1>6 DEF HashIsLast, Trail!Chained
<1>11. HeldIn(trail', n + 1) \/ n + 1 \in unaudited'
  <2>1. CASE front = <<Trail!Chained(n + 1)>>
    <3>1. 1 \in 1..Len(front) /\ front[1].entry = n + 1
      BY <1>3, <2>1 DEF Trail!Chained
    <3> QED
      BY <1>6, <3>1, PlacesAre DEF HeldIn
  <2>2. CASE n + 1 \in unaudited'
    BY <2>2
  <2> QED
    BY <1>1, <2>1, <2>2
<1>12. FilesInOrder(trail') /\ LatestIn(trail', n + 1, unaudited')
  <2>1. unaudited \subseteq unaudited'
    OBVIOUS
  <2> QED
    BY <1>1, <1>5, <1>7, <1>11, <2>1, MovedInOrder, MovedIsLatest
<1>13. FullWithinTrouble'
  <2>1. SUFFICES ASSUME trouble' = 0 PROVE FullWithinTrouble'
    BY DEF FullWithinTrouble
  <2>2. trouble = 0 /\ unaudited' = {} /\ HeldIn(trail', n + 1)
    BY <1>11, <2>1 DEF FullWithinTrouble, TrailTyped
  <2>3. Len(trail[0]) = MaxSize /\ trail[0] # <<>>
    <3>1. Len(trail[0]) \in Nat /\ (Len(trail[0]) = 0 <=> trail[0] = <<>>)
      BY <1>7, LinesAre, PlacesAre
    <3>2. Len(trail[0]) + 1 > MaxSize /\ Len(trail[0]) <= MaxSize
      BY <2>2 DEF FullWithinTrouble, TrailTyped
    <3> QED
      BY <3>1, <3>2 DEF TrailBounds
  <2>4. \A i \in Trail!Places : trail[i] = <<>> \/ Len(trail[i]) = MaxSize
    BY <2>2, <2>3 DEF FullWithinTrouble
  <2>5. \A i \in Trail!Places \ {0} : trail'[i] = <<>> \/ Len(trail'[i]) = MaxSize
    BY <1>6, <2>4
  <2>6. ASSUME NEW i \in Trail!Places \ {0}, NEW j \in Trail!Places \ {0}, j < i, trail'[i] # <<>>
        PROVE  trail'[j] # <<>>
    <3>1. trail[i - 1] # <<>> /\ trail'[j] = trail[j - 1] /\ j - 1 \in Trail!Places /\ i - 1 \in Trail!Places
      BY <1>6, <2>6
    <3>2. j - 1 < i - 1 /\ i - 1 # 0
      BY <2>6, PlacesAre
    <3> QED
      BY <2>2, <2>3, <3>1, <3>2 DEF FullWithinTrouble
  <2>7. ASSUME trail'[TrailFiles - 1] = <<>>, NEW m \in 1..(n + 1) PROVE HeldIn(trail', m)
    <3>1. trail[TrailFiles - 2] = <<>> /\ TrailFiles - 2 \in Trail!Places /\ TrailFiles - 2 # 0
      <4>1. TrailFiles - 1 # 0 /\ (TrailFiles - 1) - 1 = TrailFiles - 2
        BY DEF TrailBounds
      <4> QED
        BY <1>6, <2>3, <2>7, <4>1, PlacesAre
    <3>2. trail[TrailFiles - 1] = <<>>
      <4>1. TrailFiles - 2 < TrailFiles - 1 /\ TrailFiles - 1 # 0
        BY DEF TrailBounds
      <4> QED
        BY <2>2, <3>1, <4>1, PlacesAre DEF FullWithinTrouble
    <3>3. CASE m # n + 1
      <4>1. HeldIn(trail, m)
        BY <1>1, <2>2, <3>2, <3>3 DEF FullWithinTrouble
      <4>2. PICK i \in Trail!Places : \E k \in 1..Len(trail[i]) : trail[i][k].entry = m
        BY <4>1 DEF HeldIn
      <4>3. i # TrailFiles - 1
        BY <3>2, <4>2, EmptySeq
      <4>4. i + 1 \in Trail!Places /\ i + 1 # 0 /\ (i + 1) - 1 = i
        BY <4>3, PlacesAre
      <4>5. trail'[i + 1] = trail[i]
        BY <1>6, <4>4
      <4> QED
        BY <4>2, <4>4, <4>5 DEF HeldIn
    <3> QED
      BY <2>2, <3>3
  <2>8. Len(trail'[0]) <= MaxSize
    BY <1>2, <1>6 DEF TrailBounds
  <2> QED
    BY <1>1, <2>2, <2>5, <2>6, <2>7, <2>8 DEF FullWithinTrouble
<1> QED
  BY <1>1, <1>8, <1>9, <1>10, <1>12, <1>13

\* An entry, in the current file or in a new one.
LEMMA TrailAudit == ASSUME TrailBounds, TrailInv, Trail!Audit PROVE TrailInv'
<1>1. currentSize \in Nat /\ audited \in Nat
  BY LinesAre, PlacesAre DEF TrailInv, TrailTyped
<1>2. CASE currentSize + 1 <= MaxSize
  BY <1>2, TrailAuditsOn
<1>3. CASE currentSize + 1 > MaxSize
  <2>1. PICK front : front = <<Trail!Chained(audited + 1)>>
    OBVIOUS
  <2>2. /\ trail' = [Trail!Rotated(trail) EXCEPT ![0] = <<Trail!Chained(audited + 1)>>] /\ currentSize' = 1
        /\ lastHash' = Trail!Chained(audited + 1).entryHash /\ audited' = audited + 1
        /\ UNCHANGED <<broken, unaudited, trouble>>
    BY <1>3 DEF Trail!Audit, Trail!Append1
  <2>3. trail' = [i \in Trail!Places |-> IF i = 0 THEN front ELSE trail[i - 1]]
    BY <2>1, <2>2, PlacesAre DEF Trail!Rotated
  <2>4. currentSize' = Len(front)
    BY <2>1, <2>2
  <2> QED
    BY <1>3, <2>1, <2>2, <2>3, <2>4, TrailRotates
<1> QED
  BY <1>1, <1>2, <1>3 DEF TrailBounds

\* An entry that could not be written.
LEMMA TrailAuditFails == ASSUME TrailBounds, TrailInv, Trail!AuditFails PROVE TrailInv'
<1>1. CASE currentSize + 1 > MaxSize
  <2>1. /\ trail' = [i \in Trail!Places |-> IF i = 0 THEN <<>> ELSE trail[i - 1]]
        /\ audited' = audited + 1 /\ broken' = broken /\ currentSize' = 0 /\ lastHash' = Trail!Zero
        /\ unaudited' = unaudited \cup {audited + 1} /\ trouble' = trouble + 1
    BY <1>1 DEF Trail!AuditFails, Trail!Rotated
  <2>2. Len(<<>>) = 0
    OBVIOUS
  <2> QED
    BY <1>1, <2>1, <2>2, TrailRotates
<1>2. CASE ~(currentSize + 1 > MaxSize)
  <2> USE DEF TrailInv
  <2>1. /\ UNCHANGED <<trail, currentSize, lastHash, broken>>
        /\ audited' = audited + 1 /\ trouble' = trouble + 1 /\ unaudited' = unaudited \cup {audited + 1}
    BY <1>2 DEF Trail!AuditFails
  <2>2. PICK n \in Nat : n = audited
    BY DEF TrailTyped
  <2>3. \A i \in Trail!Places : LinesOf(trail[i], n) /\ LinesOf(trail'[i], n + 1)
    BY <2>1, <2>2, LinesOfMore DEF TrailTyped
  <2>4. TrailTyped'
    BY <2>1, <2>2, <2>3 DEF TrailTyped
  <2>5. LatestIn(trail', n + 1, unaudited')
    <3>1. SUFFICES ASSUME NEW i \in Trail!Places, NEW k \in 1..Len(trail[i]),
                          NEW m \in trail[i][k].entry..(n + 1), m # n + 1
                   PROVE  HeldIn(trail, m) \/ m \in unaudited
      BY <2>1, <2>2 DEF LatestIn
    <3>2. PICK e : e = trail[i][k].entry
      OBVIOUS
    <3>3. e \in 1..n
      BY <2>3, <3>2 DEF LinesOf
    <3>4. m \in e..n
      BY <3>1, <3>2, <3>3
    <3> QED
      BY <2>2, <3>2, <3>4 DEF LatestIn
  <2>6. FullWithinTrouble'
    BY <2>1 DEF FullWithinTrouble, TrailTyped
  <2>7. (\A i \in Trail!Places : ChainedBut(trail[i], broken))' /\ HashIsLast' /\ FilesInOrder(trail')
    BY <2>1 DEF HashIsLast
  <2> QED
    BY <2>1, <2>2, <2>4, <2>5, <2>6, <2>7
<1> QED
  BY <1>1, <1>2

\* A rotation that could not move the current file.
LEMMA TrailRotationFails == ASSUME TrailBounds, TrailInv, Trail!RotationFails PROVE TrailInv'
<1> USE DEF TrailInv
<1>1. PICK n \in Nat : n = audited
  BY DEF TrailTyped
<1>2. PICK x : x = Trail!Line(n + 1, Trail!Zero)
  OBVIOUS
<1>3. x.entry = n + 1 /\ x.prevHash = Trail!Zero
  BY <1>2 DEF Trail!Line
<1>4. /\ trail[0] # <<>>
      /\ trail' = [Trail!Rotated(trail) EXCEPT ![0] = Append(trail[0], x), ![1] = <<>>]
      /\ audited' = n + 1 /\ trouble' = trouble + 1 /\ currentSize' = currentSize + 1
      /\ lastHash' = x.entryHash /\ broken' = broken \cup {n + 1} /\ UNCHANGED unaudited
  BY <1>1, <1>2 DEF Trail!RotationFails, Trail!Chained
<1>5. /\ trail'[0] = Append(trail[0], x) /\ trail'[1] = <<>>
      /\ \A i \in Trail!Places : i # 0 /\ i # 1 => trail'[i] = trail[i - 1] /\ i - 1 \in Trail!Places
      /\ trail' = [i \in Trail!Places |-> trail'[i]]
  <2>1. PICK t : t = [Trail!Rotated(trail) EXCEPT ![0] = Append(trail[0], x)]
    OBVIOUS
  <2>2. trail' = [t EXCEPT ![1] = <<>>]
    BY <1>4, <2>1
  <2>3. t = [i \in Trail!Places |-> IF i = 0 THEN Append(trail[0], x) ELSE trail[i - 1]]
    BY <2>1, PlacesAre DEF Trail!Rotated
  <2>4. 0 # 1
    OBVIOUS
  <2> QED
    BY <2>2, <2>3, <2>4, PlacesAre
<1>6. broken \subseteq 1..n /\ \A i \in Trail!Places : LinesOf(trail[i], n) /\ ChainedBut(trail[i], broken)
  BY <1>1 DEF TrailTyped
<1>7. /\ LinesOf(trail'[0], n + 1) /\ Len(trail'[0]) = Len(trail[0]) + 1 /\ Len(trail[0]) \in Nat
      /\ trail'[0][Len(trail[0]) + 1] = x
      /\ \A k \in 1..Len(trail[0]) : trail'[0][k] = trail[0][k]
  BY <1>2, <1>5, <1>6, LineAdded, LinesAre, PlacesAre
<1>8. ASSUME NEW i \in Trail!Places PROVE LinesOf(trail'[i], n + 1)
  BY <1>5, <1>6, <1>7, LinesOfMore, NoLine
<1>9. PICK o : o = [i \in Trail!Places |-> IF i = 0 THEN 0 ELSE i - 1]
  OBVIOUS
<1>10. o \in [Trail!Places -> Trail!Places] /\ o[0] = 0 /\ \A i \in Trail!Places : i # 0 => o[i] = i - 1
  BY <1>9, PlacesAre
<1>11. FilesMove(trail', o, n)
  <2>1. \A i \in Trail!Places : Len(trail'[i]) \in Nat
    BY <1>8, LinesAre
  <2>2. ASSUME NEW i \in Trail!Places, NEW k \in 1..Len(trail'[i])
        PROVE  \/ i = 0 /\ k = Len(trail'[0]) /\ trail'[i][k].entry = n + 1
               \/ k \in 1..Len(trail[o[i]]) /\ trail'[i][k] = trail[o[i]][k]
    <3>1. CASE i = 0
      BY <1>3, <1>7, <1>10, <3>1
    <3>2. CASE i = 1
      BY <1>5, <3>2, NoLine
    <3>3. CASE i # 0 /\ i # 1
      BY <1>5, <1>10, <3>3
    <3> QED
      BY <3>1, <3>2, <3>3
  <2>3. ASSUME NEW i \in Trail!Places, NEW j \in Trail!Places, i > j PROVE o[i] > o[j] \/ trail'[i] = <<>>
    BY <1>5, <1>10, <2>3, PlacesAre
  <2>4. ASSUME NEW i \in Trail!Places, NEW k \in 1..Len(trail[i])
        PROVE  \/ HeldIn(trail', trail[i][k].entry)
               \/ \A j \in Trail!Places : i > o[j] \/ trail'[j] = <<>>
    <3>1. CASE i = 0
      <4>1. k \in 1..Len(trail'[0]) /\ trail'[0][k] = trail[0][k]
        BY <1>7, <3>1
      <4> QED
        BY <3>1, <4>1, PlacesAre DEF HeldIn
    <3>2. CASE i # 0 /\ i # TrailFiles - 1
      <4>4. i + 1 \in Trail!Places /\ i \in Nat
        BY <3>2, PlacesAre
      <4>1. i + 1 \in Trail!Places /\ i + 1 # 0 /\ i + 1 # 1 /\ (i + 1) - 1 = i
        BY <3>2, <4>4
      <4>2. trail'[i + 1] = trail[i]
        BY <1>5, <4>1
      <4> QED
        BY <4>1, <4>2 DEF HeldIn
    <3>3. CASE i = TrailFiles - 1
      <4>1. ASSUME NEW j \in Trail!Places PROVE i > o[j]
        <5>1. j \in Nat /\ j <= i /\ i >= 1
          BY <3>3, PlacesAre DEF TrailBounds
        <5> QED
          BY <1>10, <5>1, PlacesAre
      <4> QED
        BY <4>1
    <3> QED
      BY <3>1, <3>2, <3>3
  <2> QED
    BY <1>10, <2>1, <2>2, <2>3, <2>4 DEF FilesMove
<1>12. TrailTyped'
  <2>1. trouble' \in Nat /\ currentSize' = Len(trail'[0])
    BY <1>4, <1>7 DEF TrailTyped
  <2>2. broken' \subseteq 1..(n + 1)
    BY <1>4, <1>6
  <2>3. trail' = [i \in Trail!Places |-> trail'[i]]
    BY <1>5
  <2>4. audited' = n + 1
    BY <1>4
  <2> QED
    BY <1>8, <2>1, <2>2, <2>3, <2>4, TypedAgain
<1>13. ASSUME NEW i \in Trail!Places PROVE ChainedBut(trail'[i], broken')
  <2>1. broken \subseteq broken' /\ broken' \subseteq broken \cup {n + 1} /\ n + 1 \in broken'
    BY <1>4
  <2>2. CASE i = 0
    <3>1. /\ LinesOf(trail[0], n) /\ ChainedBut(trail[0], broken) /\ broken \subseteq 1..n
          /\ trail[0] # <<>> /\ trail'[0] = Append(trail[0], Trail!Line(n + 1, Trail!Zero))
      BY <1>2, <1>4, <1>5, <1>6, <2>2
    <3>2. Trail!Zero = IF trail[0] = <<>> \/ n + 1 \in broken' THEN Trail!Zero
                 ELSE trail[0][Len(trail[0])].entryHash
      BY <2>1
    <3>3. ChainedBut(Append(trail[0], Trail!Line(n + 1, Trail!Zero)), broken')
      BY <2>1, <3>1, <3>2, ChainGrows
    <3> QED
      BY <2>2, <3>1, <3>3
  <2>3. CASE i = 1
    BY <1>5, <2>3, NoLine DEF ChainedBut
  <2>4. CASE i # 0 /\ i # 1
    BY <1>5, <1>6, <2>1, <2>4, ChainedStill
  <2> QED
    BY <2>2, <2>3, <2>4
<1>14. HeldIn(trail', n + 1) /\ HashIsLast'
  <2>1. Len(trail[0]) + 1 \in 1..Len(trail'[0]) /\ trail'[0] # <<>>
    BY <1>7, EmptySeq
  <2> QED
    BY <1>3, <1>4, <1>7, <2>1, PlacesAre DEF HeldIn, HashIsLast
<1>15. FilesInOrder(trail') /\ LatestIn(trail', n + 1, unaudited')
  <2>1. unaudited \subseteq unaudited'
    BY <1>4
  <2> QED
    BY <1>1, <1>6, <1>11, <1>14, <2>1, MovedInOrder, MovedIsLatest
<1>16. FullWithinTrouble'
  BY <1>4 DEF FullWithinTrouble, TrailTyped
<1> QED
  BY <1>4, <1>12, <1>13, <1>14, <1>15, <1>16

\* A restart begins a chain again.
LEMMA TrailRestart == ASSUME TrailInv, Trail!Restart PROVE TrailInv'
<1> USE DEF TrailInv
<1>1. /\ trouble' = trouble + 1 /\ currentSize' = Len(trail[0]) /\ lastHash' = Trail!Zero
      /\ UNCHANGED <<trail, audited, unaudited, broken>>
  BY DEF Trail!Restart
<1>2. TrailTyped'
  BY <1>1 DEF TrailTyped
<1>3. FullWithinTrouble'
  BY <1>1 DEF FullWithinTrouble, TrailTyped
<1> QED
  BY <1>1, <1>2, <1>3 DEF HashIsLast

LEMMA TrailGoesOn == ASSUME TrailBounds PROVE TrailInv /\ [Trail!Next]_Trail!vars => TrailInv'
<1> SUFFICES ASSUME TrailInv, [Trail!Next]_Trail!vars PROVE TrailInv'
  OBVIOUS
<1>1. CASE UNCHANGED Trail!vars
  BY <1>1 DEF Trail!vars, TrailInv, TrailTyped, HashIsLast, FullWithinTrouble
<1> QED
  BY <1>1, TrailAudit, TrailAuditFails, TrailRotationFails, TrailRestart DEF Trail!Next

-----------------------------------------------------------------------------
(* What the files show. *)

\* Every set of numbers that is not empty has a smallest one.
LEMMA LeastNumber ==
    ASSUME NEW T \in SUBSET Nat, T # {}
    PROVE  \E n \in T : \A m \in T : n <= m
<1> DEFINE R == {ss \in Nat \X Nat : ss[1] < ss[2]}
<1>1. \A m, n \in Nat : <<m, n>> \in R <=> m < n
  OBVIOUS
<1>2. IsWellFoundedOn(R, Nat)
  BY NatLessThanWellFounded DEF OpToRel
<1> HIDE DEF R
<1>3. PICK n \in T : \A m \in T : ~(<<m, n>> \in R)
  BY <1>2, WFMin
<1>4. ASSUME NEW m \in T PROVE n <= m
  <2>1. m \in Nat /\ n \in Nat
    OBVIOUS
  <2>2. ~(m < n)
    BY <1>1, <1>3, <2>1
  <2> QED
    BY <2>1, <2>2
<1> QED
  BY <1>4

\* A line verifies unless it began a chain within its file.
GoodLine(s, k) ==
    /\ s[k].prevHash = (IF k = 1 THEN Trail!Zero ELSE s[k - 1].entryHash)
    /\ s[k].entryHash = <<s[k].entry, s[k].prevHash>>

LEMMA GoodUnlessBroken ==
    ASSUME NEW s, NEW n, LinesOf(s, n), NEW b, ChainedBut(s, b), NEW k \in 1..Len(s)
    PROVE  GoodLine(s, k) <=> s[k].entry \notin b
<1>1. ASSUME NEW j \in 1..Len(s) PROVE s[j].entryHash = <<s[j].entry, s[j].prevHash>>
  <2>1. PICK e, h : e = s[j].entry /\ h = s[j].prevHash
    OBVIOUS
  <2>2. s[j] = Trail!Line(e, h)
    BY <2>1 DEF LinesOf
  <2> QED
    BY <2>1, <2>2 DEF Trail!Line
<1>2. CASE s[k].entry \notin b
  BY <1>1, <1>2 DEF GoodLine, ChainedBut
<1>3. CASE s[k].entry \in b
  <2>1. k > 1 /\ s[k].prevHash = Trail!Zero
    BY <1>3 DEF ChainedBut
  <2>2. k - 1 \in 1..Len(s)
    BY <2>1, LinesAre
  <2>3. PICK e, h : e = s[k - 1].entry /\ h = s[k - 1].prevHash
    OBVIOUS
  <2>4. s[k - 1].entryHash = <<e, h>>
    BY <1>1, <2>2, <2>3
  <2>5. <<e, h>> # Trail!Zero
    BY DEF Trail!Zero
  <2> QED
    BY <1>3, <2>1, <2>4, <2>5 DEF GoodLine
<1> QED
  BY <1>2, <1>3

LEMMA VerifiedIs ==
    ASSUME NEW s, NEW c \in Nat, Len(s) \in Nat, c <= Len(s),
           \A k \in 1..c : GoodLine(s, k), c = Len(s) \/ ~GoodLine(s, c + 1)
    PROVE  Trail!Verified(s) = c
<1> DEFINE P(n) == (\A k \in 1..n : GoodLine(s, k)) /\ (n = Len(s) \/ ~GoodLine(s, n + 1))
<1>1. Trail!Verified(s) = CHOOSE n \in 0..Len(s) : P(n)
  BY DEF Trail!Verified, GoodLine
<1>2. c \in 0..Len(s) /\ P(c)
  OBVIOUS
<1>3. ASSUME NEW n \in 0..Len(s), P(n) PROVE n = c
  <2>1. n + 1 \in 1..c => n = Len(s)
    BY <1>3
  <2>2. c + 1 \in 1..n => c = Len(s)
    BY <1>3
  <2> QED
    BY <2>1, <2>2
<1> HIDE DEF P
<1> QED
  BY <1>1, <1>2, <1>3

LEMMA FilesVerified == ASSUME TrailBounds PROVE TrailInv => Trail!FilesVerify
<1> SUFFICES ASSUME TrailInv, NEW i \in Trail!Places,
                    NEW cut, cut = {k \in DOMAIN trail[i] : trail[i][k].entry \in broken}
             PROVE  Trail!Verified(trail[i]) = IF cut = {} THEN Len(trail[i])
                                         ELSE (CHOOSE k \in cut : \A j \in cut : k <= j) - 1
  BY DEF Trail!FilesVerify
<1>1. LinesOf(trail[i], audited) /\ ChainedBut(trail[i], broken)
  BY DEF TrailInv, TrailTyped
<1>2. PICK l \in Nat : l = Len(trail[i]) /\ DOMAIN trail[i] = 1..l
  BY <1>1, LinesAre
<1>3. \A k \in 1..l : GoodLine(trail[i], k) <=> k \notin cut
  BY <1>1, <1>2, GoodUnlessBroken
<1>4. CASE cut = {}
  BY <1>2, <1>3, <1>4, VerifiedIs
<1>5. CASE cut # {}
  <2>1. cut \in SUBSET Nat /\ cut \subseteq 1..l
    BY <1>2
  <2>2. \E k \in cut : \A j \in cut : k <= j
    BY <1>5, <2>1, LeastNumber
  <2>3. PICK c : c = CHOOSE k \in cut : \A j \in cut : k <= j
    OBVIOUS
  <2>4. c \in cut /\ \A j \in cut : c <= j
    BY <2>2, <2>3
  <2>5. c - 1 \in Nat /\ c - 1 <= l /\ (c - 1) + 1 = c /\ \A k \in 1..(c - 1) : k \in 1..l /\ k \notin cut
    BY <2>1, <2>4
  <2>6. ~GoodLine(trail[i], c) /\ \A k \in 1..(c - 1) : GoodLine(trail[i], k)
    BY <1>3, <2>1, <2>4, <2>5
  <2>7. Trail!Verified(trail[i]) = c - 1
    BY <1>2, <2>5, <2>6, VerifiedIs
  <2> QED
    BY <1>5, <2>3, <2>7
<1> QED
  BY <1>4, <1>5

LEMMA NoneIsLost == ASSUME TrailBounds PROVE TrailInv => Trail!NoneLostWithin
<1> SUFFICES ASSUME TrailInv PROVE Trail!NoneLostWithin
  OBVIOUS
<1> USE DEF TrailInv
<1>1. \A i \in Trail!Places : LinesOf(trail[i], audited) /\ DOMAIN trail[i] = 1..Len(trail[i])
  BY LinesAre DEF TrailTyped
<1>2. \A m : m \in Trail!Kept <=> HeldIn(trail, m)
  BY <1>1 DEF Trail!Kept, Trail!Holds, HeldIn
<1>3. Trail!Kept \subseteq 1..audited
  <2>1. ASSUME NEW m \in Trail!Kept PROVE m \in 1..audited
    <3>1. PICK i \in Trail!Places : \E k \in 1..Len(trail[i]) : trail[i][k].entry = m
      BY <1>2 DEF HeldIn
    <3> QED
      BY <1>1, <3>1 DEF LinesOf
  <2> QED
    BY <2>1
<1>4. ASSUME NEW n \in Trail!Kept, NEW m \in n..audited PROVE m \in Trail!Kept \cup unaudited
  <2>1. PICK i \in Trail!Places : \E k \in 1..Len(trail[i]) : trail[i][k].entry = n
    BY <1>2 DEF HeldIn
  <2> QED
    BY <1>2, <1>4, <2>1 DEF LatestIn
<1>5. ASSUME trouble = 0, ~(Trail!Kept = 1..audited), NEW i \in Trail!Places \ {0} PROVE Len(trail[i]) = MaxSize
  <2>1. trail[TrailFiles - 1] # <<>>
    BY <1>2, <1>3, <1>5 DEF FullWithinTrouble
  <2>2. trail[i] # <<>>
    <3>1. CASE i = TrailFiles - 1
      BY <2>1, <3>1
    <3>2. CASE i # TrailFiles - 1
      <4>2. TrailFiles - 1 \in Trail!Places /\ i \in Nat /\ i <= TrailFiles - 1
        BY PlacesAre
      <4>3. TrailFiles \in Nat /\ TrailFiles >= 2
        BY DEF TrailBounds
      <4>1. TrailFiles - 1 \in Trail!Places \ {0} /\ i < TrailFiles - 1
        BY <3>2, <4>2, <4>3
      <4> QED
        BY <1>5, <2>1, <4>1 DEF FullWithinTrouble
    <3> QED
      BY <3>1, <3>2
  <2> QED
    BY <1>5, <2>2 DEF FullWithinTrouble
<1>6. \A i, j \in Trail!Places : \A k \in DOMAIN trail[i], l \in DOMAIN trail[j] :
          i > j \/ (i = j /\ k < l) => trail[i][k].entry < trail[j][l].entry
  BY <1>1 DEF FilesInOrder
<1> QED
  BY <1>4, <1>5, <1>6 DEF Trail!NoneLostWithin

\* The files of the audit trail hold the latest entries that could be written, in order and
\* with none missing between two, and each verifies up to the first entry that a restart or
\* a failed rotation made begin a chain anew: for any sizes, numbers of files and failures
\* (audit-trail-writer.ts, audit-chain-verifier.ts).
THEOREM TrailIsWhole ==
    ASSUME TrailBounds PROVE Trail!Init /\ [][Trail!Next]_Trail!vars => [](Trail!FilesVerify /\ Trail!NoneLostWithin)
<1>1. Trail!Init => TrailInv
  BY TrailBegins
<1>2. TrailInv /\ [Trail!Next]_Trail!vars => TrailInv'
  BY TrailGoesOn
<1>3. TrailInv => Trail!FilesVerify /\ Trail!NoneLostWithin
  BY FilesVerified, NoneIsLost
<1> QED
  BY <1>1, <1>2, <1>3, PTL


-----------------------------------------------------------------------------
(* The sandbox's audit log (audit-logger.ts). *)

\* A number of files is kept.
LogBounds == AuditFiles \in Nat

LogFiles == [state : {"opening", "open", "failed", "ended"}, entries : Seq(Nat)]
LogFlushes == [entries : Seq(Nat), stream : Nat, by : {"full", "timer", "dispose"},
               at : {"dir", "open", "write", "drain", "rotate", "stuck"}]

NoTwice(s) == \A j, k \in 1..Len(s) : s[j] = s[k] => j = k

LogTyped ==
    /\ auditBuffer \in Seq(Nat) /\ logged \in Nat
    /\ streams \in Seq(LogFiles) /\ stream \in Nat /\ stream <= Len(streams)
    /\ flushes \subseteq LogFlushes /\ IsFiniteSet(flushes)
    /\ \A f \in flushes : f.at \notin {"dir", "stuck"} => f.stream \in 1..Len(streams)

\* No two flushes have an entry in common, and none has one twice.
FlushesApart ==
    /\ \A f \in flushes : NoTwice(f.entries)
    /\ \A f, g \in flushes : f # g => Audit!Range(f.entries) \cap Audit!Range(g.entries) = {}

\* No two lines of the files there are hold the same entry.
LinesApart ==
    \A s, t \in 1..Len(streams) :
        \A j \in 1..Len(streams[s].entries), k \in 1..Len(streams[t].entries) :
            streams[s].entries[j] = streams[t].entries[k] => s = t /\ j = k

\* The sets of entries written, under way, buffered and lost are apart, and all there are.
Shared(w, u, b, l, n) ==
    /\ w \cup u \cup b \cup l = 1..n
    /\ w \cap u = {} /\ w \cap b = {} /\ w \cap l = {}
    /\ u \cap b = {} /\ u \cap l = {} /\ b \cap l = {}

LogInv ==
    /\ LogTyped /\ FlushesApart /\ LinesApart /\ NoTwice(auditBuffer)
    /\ Shared(Audit!Written, Audit!UnderWay, Audit!Range(auditBuffer), lost, logged)

-----------------------------------------------------------------------------
(* Entries. *)

LEMMA RangeOf ==
    ASSUME NEW S, NEW s \in Seq(S)
    PROVE  /\ Len(s) \in Nat /\ DOMAIN s = 1..Len(s)
           /\ \A n : n \in Audit!Range(s) <=> \E k \in 1..Len(s) : s[k] = n
           /\ Audit!Range(s) \subseteq S /\ (s = <<>> <=> Audit!Range(s) = {})
<1>1. PICK c \in Nat : c = Len(s) /\ DOMAIN s = 1..c
  BY LenProperties
<1>2. \A k \in 1..c : s[k] \in S
  BY <1>1, ElementOfSeq
<1>3. s = <<>> <=> c = 0
  BY <1>1, EmptySeq
<1>4. \A n : n \in Audit!Range(s) <=> \E k \in 1..c : s[k] = n
  BY <1>1 DEF Audit!Range
<1>5. Audit!Range(s) \subseteq S
  BY <1>2, <1>4
<1>6. Audit!Range(s) = {} <=> c = 0
  <2>1. c # 0 => 1 \in 1..c
    OBVIOUS
  <2>2. c # 0 => s[1] \in Audit!Range(s)
    BY <1>4, <2>1
  <2>3. c = 0 => 1..c = {}
    OBVIOUS
  <2> QED
    BY <1>4, <2>2, <2>3
<1> QED
  BY <1>1, <1>3, <1>4, <1>5, <1>6

\* An entry more at the end, and one less at the front.
LEMMA RangeAppend ==
    ASSUME NEW s \in Seq(Nat), NEW n \in Nat
    PROVE  /\ Append(s, n) \in Seq(Nat) /\ Audit!Range(Append(s, n)) = Audit!Range(s) \cup {n}
           /\ NoTwice(s) /\ n \notin Audit!Range(s) => NoTwice(Append(s, n))
<1>1. PICK t : t = Append(s, n)
  OBVIOUS
<1>2. PICK c \in Nat : c = Len(s)
  BY LenProperties
<1>3. t \in Seq(Nat) /\ Len(t) = c + 1 /\ t[c + 1] = n /\ \A k \in 1..c : t[k] = s[k]
  BY <1>1, <1>2, AppendProperties
<1>4. \A m : m \in Audit!Range(s) <=> \E k \in 1..c : s[k] = m
  BY <1>2, RangeOf
<1>5. \A m : m \in Audit!Range(t) <=> \E k \in 1..(c + 1) : t[k] = m
  BY <1>3, RangeOf
<1>6. \A k \in 1..(c + 1) : k = c + 1 \/ k \in 1..c
  OBVIOUS
<1>7. Audit!Range(t) = Audit!Range(s) \cup {n}
  BY <1>3, <1>4, <1>5, <1>6
<1>8. NoTwice(s) /\ n \notin Audit!Range(s) => NoTwice(t)
  BY <1>2, <1>3, <1>4, <1>6 DEF NoTwice
<1> QED
  BY <1>1, <1>3, <1>7, <1>8

LEMMA RangeTail ==
    ASSUME NEW s \in Seq(Nat), s # <<>>, NoTwice(s)
    PROVE  /\ Head(s) \in Nat /\ Tail(s) \in Seq(Nat) /\ NoTwice(Tail(s))
           /\ Audit!Range(s) = Audit!Range(Tail(s)) \cup {Head(s)} /\ Head(s) \notin Audit!Range(Tail(s))
<1>1. PICK t : t = Tail(s)
  OBVIOUS
<1>2. PICK c \in Nat : c = Len(t)
  BY <1>1, HeadTailProperties, LenProperties
<1>3. /\ t \in Seq(Nat) /\ Len(s) = c + 1 /\ Head(s) = s[1] /\ s[1] \in Nat
      /\ \A k \in 1..c : t[k] = s[k + 1]
  <2>1. t \in Seq(Nat) /\ Len(t) = Len(s) - 1 /\ Head(s) \in Nat /\ \A k \in 1..Len(t) : t[k] = s[k + 1]
    BY <1>1, HeadTailProperties
  <2>2. Len(s) \in Nat
    BY LenProperties
  <2> QED
    BY <1>2, <2>1, <2>2
<1>4. \A m : m \in Audit!Range(s) <=> \E k \in 1..(c + 1) : s[k] = m
  BY <1>3, RangeOf
<1>5. \A m : m \in Audit!Range(t) <=> \E k \in 1..c : t[k] = m
  BY <1>2, <1>3, RangeOf
<1>6. \A k \in 1..(c + 1) : k = 1 \/ (k - 1 \in 1..c /\ (k - 1) + 1 = k)
  OBVIOUS
<1>7. \A k \in 1..c : k + 1 \in 1..(c + 1) /\ k + 1 # 1
  OBVIOUS
<1>8. Audit!Range(s) = Audit!Range(t) \cup {s[1]}
  <2>1. ASSUME NEW m \in Audit!Range(s) PROVE m \in Audit!Range(t) \cup {s[1]}
    <3>1. PICK k \in 1..(c + 1) : s[k] = m
      BY <1>4
    <3>2. CASE k # 1
      <4>1. k - 1 \in 1..c /\ (k - 1) + 1 = k
        BY <1>6, <3>2
      <4>2. t[k - 1] = m
        BY <1>3, <3>1, <4>1
      <4> QED
        BY <1>5, <4>1, <4>2
    <3> QED
      BY <3>1, <3>2
  <2>2. ASSUME NEW m \in Audit!Range(t) PROVE m \in Audit!Range(s)
    <3>1. PICK k \in 1..c : t[k] = m
      BY <1>5
    <3> QED
      BY <1>3, <1>4, <1>7, <3>1
  <2>3. s[1] \in Audit!Range(s)
    BY <1>4
  <2> QED
    BY <2>1, <2>2, <2>3
<1>10. \A j, k \in 1..(c + 1) : s[j] = s[k] => j = k
  BY <1>3 DEF NoTwice
<1>9. s[1] \notin Audit!Range(t) /\ NoTwice(t)
  <2>1. ASSUME NEW k \in 1..c PROVE t[k] # s[1]
    <3>1. t[k] = s[k + 1] /\ k + 1 \in 1..(c + 1) /\ 1 \in 1..(c + 1) /\ k + 1 # 1
      BY <1>3, <1>7
    <3> QED
      BY <1>10, <3>1
  <2>2. ASSUME NEW j \in 1..c, NEW k \in 1..c, t[j] = t[k] PROVE j = k
    <3>1. s[j + 1] = s[k + 1] /\ j + 1 \in 1..(c + 1) /\ k + 1 \in 1..(c + 1)
      BY <1>3, <1>7, <2>2
    <3>2. j + 1 = k + 1
      BY <1>10, <3>1
    <3> QED
      BY <3>2
  <2> QED
    BY <1>2, <1>5, <2>1, <2>2 DEF NoTwice
<1> QED
  BY <1>1, <1>3, <1>8, <1>9

LEMMA EmptyEntries == Audit!Range(<<>>) = {} /\ NoTwice(<<>>) /\ <<>> \in Seq(Nat)
BY EmptySeq DEF Audit!Range, NoTwice

\* What is written, line by line.
WrittenBy(files, gone) == (UNION {Audit!Range(s.entries) : s \in Audit!Range(files)}) \cup gone

LEMMA WrittenIs ==
    ASSUME NEW files \in Seq(LogFiles), NEW gone
    PROVE  \A n : n \in WrittenBy(files, gone) <=>
                    \/ n \in gone
                    \/ \E s \in 1..Len(files) : \E k \in 1..Len(files[s].entries) :
                           files[s].entries[k] = n
<1>1. Len(files) \in Nat /\ DOMAIN files = 1..Len(files)
  BY LenProperties
<1>2. \A s \in 1..Len(files) : files[s].entries \in Seq(Nat)
  <2>1. ASSUME NEW s \in 1..Len(files) PROVE files[s].entries \in Seq(Nat)
    <3>1. files[s] \in LogFiles
      BY ElementOfSeq
    <3> QED
      BY <3>1 DEF LogFiles
  <2> QED
    BY <2>1
<1>3. \A n : (\E s \in 1..Len(files) : n \in Audit!Range(files[s].entries)) <=>
             \E s \in 1..Len(files) : \E k \in 1..Len(files[s].entries) :
                           files[s].entries[k] = n
  BY <1>2, RangeOf
<1>4. \A n : n \in UNION {Audit!Range(s.entries) : s \in Audit!Range(files)} <=>
             \E s \in 1..Len(files) : n \in Audit!Range(files[s].entries)
  BY <1>1 DEF Audit!Range
<1> QED
  BY <1>3, <1>4 DEF WrittenBy

LEMMA FlushIs ==
    ASSUME LogTyped, NEW f \in flushes
    PROVE  /\ f.entries \in Seq(Nat) /\ f.stream \in Nat /\ f.by \in {"full", "timer", "dispose"}
           /\ f = [entries |-> f.entries, stream |-> f.stream, by |-> f.by, at |-> f.at]
           /\ Audit!Range(f.entries) \subseteq Audit!UnderWay
BY DEF LogTyped, LogFlushes, Audit!UnderWay

-----------------------------------------------------------------------------
(* Flushes. *)

LEMMA UnderWayIs == \A n : n \in Audit!UnderWay <=> \E f \in flushes : n \in Audit!Range(f.entries)
BY DEF Audit!UnderWay

LEMMA FlushAdded ==
    ASSUME LogTyped, FlushesApart, NEW g \in LogFlushes, NoTwice(g.entries),
           Audit!Range(g.entries) \cap Audit!UnderWay = {}, flushes' = flushes \cup {g}
    PROVE  /\ Audit!UnderWay' = Audit!UnderWay \cup Audit!Range(g.entries) /\ FlushesApart'
           /\ flushes' \subseteq LogFlushes /\ IsFiniteSet(flushes')
<1>1. Audit!UnderWay' = Audit!UnderWay \cup Audit!Range(g.entries)
  BY DEF Audit!UnderWay
<1>2. \A f \in flushes : Audit!Range(f.entries) \cap Audit!Range(g.entries) = {}
  BY UnderWayIs
<1>3. FlushesApart'
  <2>1. \A f \in flushes' : NoTwice(f.entries)
    BY DEF FlushesApart
  <2>2. ASSUME NEW f \in flushes', NEW h \in flushes', f # h
        PROVE  Audit!Range(f.entries) \cap Audit!Range(h.entries) = {}
    BY <1>2, <2>2 DEF FlushesApart
  <2> QED
    BY <2>1, <2>2 DEF FlushesApart
<1>4. IsFiniteSet(flushes')
  BY FS_AddElement DEF LogTyped
<1> QED
  BY <1>1, <1>3, <1>4 DEF LogTyped

LEMMA FlushBecomes ==
    ASSUME LogTyped, FlushesApart, NEW f \in flushes, NEW g \in LogFlushes, NoTwice(g.entries),
           Audit!Range(g.entries) \subseteq Audit!Range(f.entries), Audit!Becomes(f, g)
    PROVE  /\ Audit!UnderWay' = (Audit!UnderWay \ Audit!Range(f.entries)) \cup Audit!Range(g.entries) /\ FlushesApart'
           /\ flushes' \subseteq LogFlushes /\ IsFiniteSet(flushes')
<1>1. flushes' = (flushes \ {f}) \cup {g}
  BY DEF Audit!Becomes
<1>2. \A h \in flushes \ {f} : Audit!Range(h.entries) \cap Audit!Range(f.entries) = {}
  BY DEF FlushesApart
<1>3. \A n : n \in Audit!UnderWay' <=> \E h \in flushes' : n \in Audit!Range(h.entries)
  BY DEF Audit!UnderWay
<1>4. Audit!UnderWay' = (Audit!UnderWay \ Audit!Range(f.entries)) \cup Audit!Range(g.entries)
  <2>1. ASSUME NEW n \in Audit!UnderWay' PROVE n \in (Audit!UnderWay \ Audit!Range(f.entries)) \cup Audit!Range(g.entries)
    BY <1>1, <1>2, <1>3, UnderWayIs
  <2>2. ASSUME NEW n \in (Audit!UnderWay \ Audit!Range(f.entries)) \cup Audit!Range(g.entries) PROVE n \in Audit!UnderWay'
    BY <1>1, <1>3, UnderWayIs
  <2> QED
    BY <2>1, <2>2
<1>5. FlushesApart'
  <2>1. \A h \in flushes' : NoTwice(h.entries)
    BY <1>1 DEF FlushesApart
  <2>2. ASSUME NEW h \in flushes', NEW k \in flushes', h # k
        PROVE  Audit!Range(h.entries) \cap Audit!Range(k.entries) = {}
    BY <1>1, <1>2, <2>2 DEF FlushesApart
  <2> QED
    BY <2>1, <2>2 DEF FlushesApart
<1>6. IsFiniteSet(flushes')
  BY <1>1, FS_AddElement, FS_RemoveElement DEF LogTyped
<1> QED
  BY <1>1, <1>4, <1>5, <1>6 DEF LogTyped

LEMMA FlushGone ==
    ASSUME LogTyped, FlushesApart, NEW f \in flushes, flushes' = flushes \ {f}
    PROVE  /\ Audit!UnderWay' = Audit!UnderWay \ Audit!Range(f.entries) /\ FlushesApart'
           /\ flushes' \subseteq LogFlushes /\ IsFiniteSet(flushes')
<1>1. \A h \in flushes \ {f} : Audit!Range(h.entries) \cap Audit!Range(f.entries) = {}
  BY DEF FlushesApart
<1>2. \A n : n \in Audit!UnderWay' <=> \E h \in flushes' : n \in Audit!Range(h.entries)
  BY DEF Audit!UnderWay
<1>3. Audit!UnderWay' = Audit!UnderWay \ Audit!Range(f.entries)
  <2>1. ASSUME NEW n \in Audit!UnderWay' PROVE n \in Audit!UnderWay \ Audit!Range(f.entries)
    BY <1>1, <1>2, UnderWayIs
  <2>2. ASSUME NEW n \in Audit!UnderWay \ Audit!Range(f.entries) PROVE n \in Audit!UnderWay'
    BY <1>2, UnderWayIs
  <2> QED
    BY <2>1, <2>2
<1>4. FlushesApart'
  BY DEF FlushesApart
<1>5. IsFiniteSet(flushes')
  BY FS_RemoveElement DEF LogTyped
<1> QED
  BY <1>3, <1>4, <1>5 DEF LogTyped

-----------------------------------------------------------------------------
(* Files. *)

LEMMA FilesAre ==
    ASSUME NEW t, t \in Seq(LogFiles)
    PROVE  /\ Len(t) \in Nat /\ DOMAIN t = 1..Len(t)
           /\ \A s \in 1..Len(t) :
                 /\ t[s] \in LogFiles /\ t[s].entries \in Seq(Nat) /\ Len(t[s].entries) \in Nat
                 /\ t[s].state \in {"opening", "open", "failed", "ended"}
                 /\ t[s] = [state |-> t[s].state, entries |-> t[s].entries]
<1>1. Len(t) \in Nat /\ DOMAIN t = 1..Len(t)
  BY LenProperties
<1>2. ASSUME NEW s \in 1..Len(t)
      PROVE  /\ t[s] \in LogFiles /\ t[s].entries \in Seq(Nat) /\ Len(t[s].entries) \in Nat
             /\ t[s].state \in {"opening", "open", "failed", "ended"}
             /\ t[s] = [state |-> t[s].state, entries |-> t[s].entries]
  <2>1. t[s] \in LogFiles
    BY ElementOfSeq
  <2>2. t[s].entries \in Seq(Nat) /\ t[s].state \in {"opening", "open", "failed", "ended"}
        /\ t[s] = [state |-> t[s].state, entries |-> t[s].entries]
    BY <2>1 DEF LogFiles
  <2> QED
    BY <2>1, <2>2, LenProperties
<1> QED
  BY <1>1, <1>2

LEMMA WrittenNow ==
    ASSUME streams \in Seq(LogFiles)
    PROVE  \A e : e \in Audit!Written <=>
                    \/ e \in deleted
                    \/ \E s \in 1..Len(streams) : \E k \in 1..Len(streams[s].entries) :
                           streams[s].entries[k] = e
<1>1. Audit!Written = WrittenBy(streams, deleted)
  BY DEF Audit!Written, WrittenBy
<1> QED
  BY <1>1, WrittenIs

LEMMA WrittenThen ==
    ASSUME streams' \in Seq(LogFiles)
    PROVE  \A e : e \in Audit!Written' <=>
                    \/ e \in deleted'
                    \/ \E s \in 1..Len(streams') : \E k \in 1..Len(streams'[s].entries) :
                           streams'[s].entries[k] = e
<1>1. Audit!Written' = WrittenBy(streams', deleted')
  BY DEF Audit!Written, WrittenBy
<1> QED
  BY <1>1, WrittenIs

LEMMA FilesFrom ==
    ASSUME NEW n \in Nat, NEW t \in [1..n -> LogFiles]
    PROVE  t \in Seq(LogFiles) /\ Len(t) = n
<1>1. t \in Seq(LogFiles) /\ DOMAIN t = 1..n
  BY SeqDef
<1> QED
  BY <1>1, LenProperties

\* Files whose lines stay, one by one.
LEMMA LinesStay ==
    ASSUME streams \in Seq(LogFiles), LinesApart, NEW n \in Nat, n = Len(streams),
           streams' \in [1..n -> LogFiles],
           \A s \in 1..n : streams'[s].entries = streams[s].entries, deleted' = deleted
    PROVE  streams' \in Seq(LogFiles) /\ Len(streams') = n /\ LinesApart' /\ Audit!Written' = Audit!Written
<1>1. streams' \in Seq(LogFiles) /\ Len(streams') = n
  BY FilesFrom
<1>2. LinesApart'
  BY <1>1 DEF LinesApart
<1>5. \A s \in 1..n : Len(streams'[s].entries) = Len(streams[s].entries)
  OBVIOUS
<1>6. \A e : e \in Audit!Written' <=> e \in Audit!Written
  BY <1>1, <1>5, WrittenNow, WrittenThen
<1> QED
  BY <1>1, <1>2, <1>6

\* A file that nothing is written to yet.
LEMMA FileAdded ==
    ASSUME streams \in Seq(LogFiles), LinesApart, NEW n \in Nat, n = Len(streams),
           streams' = Append(streams, [state |-> "opening", entries |-> <<>>]), deleted' = deleted
    PROVE  /\ streams' \in Seq(LogFiles) /\ Len(streams') = n + 1
           /\ LinesApart' /\ Audit!Written' = Audit!Written
<1>1. PICK x : x = [state |-> "opening", entries |-> <<>>]
  OBVIOUS
<1>2. x \in LogFiles /\ x.entries = <<>> /\ Len(x.entries) = 0
  BY <1>1, EmptyEntries DEF LogFiles
<1>3. /\ streams' \in Seq(LogFiles) /\ Len(streams') = n + 1 /\ streams'[n + 1] = x
      /\ \A s \in 1..n : streams'[s] = streams[s]
  BY <1>1, <1>2, AppendProperties
<1>4. \A s \in 1..(n + 1) : s \in 1..n \/ 1..Len(streams'[s].entries) = {}
  <2>1. \A s \in 1..(n + 1) : s \in 1..n \/ s = n + 1
    OBVIOUS
  <2> QED
    BY <1>2, <1>3, <2>1
<1>5. LinesApart'
  BY <1>3, <1>4 DEF LinesApart
<1>6. \A e : e \in Audit!Written' <=> e \in Audit!Written
  <2>1. ASSUME NEW s \in 1..n PROVE s \in 1..(n + 1)
    OBVIOUS
  <2> QED
    BY <1>3, <1>4, <2>1, WrittenNow, WrittenThen
<1> QED
  BY <1>3, <1>5, <1>6

LEMMA ApartThen ==
    ASSUME NEW n, Len(streams') = n,
           \A s, t \in 1..n :
              \A j \in 1..Len(streams'[s].entries), k \in 1..Len(streams'[t].entries) :
                 streams'[s].entries[j] = streams'[t].entries[k] => s = t /\ j = k
    PROVE  LinesApart'
BY DEF LinesApart

\* A line that holds an entry of no other.
LEMMA LineWritten ==
    ASSUME streams \in Seq(LogFiles), LinesApart, NEW n \in Nat, n = Len(streams),
           NEW c \in 1..n, NEW e \in Nat, e \notin Audit!Written,
           streams' = [streams EXCEPT ![c].entries = Append(@, e)], deleted' = deleted
    PROVE  /\ streams' \in Seq(LogFiles) /\ Len(streams') = n
           /\ LinesApart' /\ Audit!Written' = Audit!Written \cup {e}
<1>1. PICK old : old = streams[c].entries
  OBVIOUS
<1>2. PICK new : new = Append(old, e)
  OBVIOUS
<1>3. PICK l \in Nat : l = Len(old) /\ old \in Seq(Nat)
  BY <1>1, FilesAre
<1>4. new \in Seq(Nat) /\ Len(new) = l + 1 /\ new[l + 1] = e /\ \A k \in 1..l : new[k] = old[k]
  BY <1>2, <1>3, AppendProperties
<1>5. DOMAIN streams = 1..n /\ \A s \in 1..n : streams[s] \in LogFiles
  BY FilesAre
<1>6. streams' = [s \in 1..n |-> IF s = c THEN [streams[c] EXCEPT !.entries = new] ELSE streams[s]]
  BY <1>1, <1>2, <1>5
<1>7. [streams[c] EXCEPT !.entries = new] \in LogFiles
      /\ [streams[c] EXCEPT !.entries = new].entries = new
  BY <1>4, <1>5 DEF LogFiles
<1>8. streams' \in [1..n -> LogFiles]
  BY <1>5, <1>6, <1>7
<1>9. streams' \in Seq(LogFiles) /\ Len(streams') = n
  BY <1>8, FilesFrom
<1>10. /\ streams'[c].entries = new
       /\ \A s \in 1..n : s # c => streams'[s].entries = streams[s].entries
  BY <1>6, <1>7
\* A line of the new files is one of the old ones, or the new one.
<1>11. ASSUME NEW s \in 1..n, NEW k \in 1..Len(streams'[s].entries)
       PROVE  \/ k \in 1..Len(streams[s].entries) /\ streams'[s].entries[k] = streams[s].entries[k]
              \/ s = c /\ k = l + 1 /\ streams'[s].entries[k] = e
  <2>1. CASE s # c
    BY <1>10, <2>1
  <2>2. CASE s = c
    <3>1. k \in 1..(l + 1)
      BY <1>4, <1>10, <2>2
    <3>2. k \in 1..l \/ k = l + 1
      BY <3>1
    <3> QED
      BY <1>1, <1>3, <1>4, <1>10, <2>2, <3>2
  <2> QED
    BY <2>1, <2>2
<1>12. ASSUME NEW s \in 1..n, NEW k \in 1..Len(streams[s].entries)
       PROVE  /\ k \in 1..Len(streams'[s].entries) /\ streams'[s].entries[k] = streams[s].entries[k]
              /\ streams[s].entries[k] # e
  <2>1. streams[s].entries[k] # e
    BY WrittenNow
  <2>2. CASE s # c
    BY <1>10, <2>1, <2>2
  <2>3. CASE s = c
    <3>1. k \in 1..l /\ k \in 1..(l + 1)
      BY <1>1, <1>3, <2>3
    <3> QED
      BY <1>1, <1>3, <1>4, <1>10, <2>1, <2>3, <3>1
  <2> QED
    BY <2>2, <2>3
<1>13. LinesApart'
  <2>1. ASSUME NEW s \in 1..n, NEW t \in 1..n,
               NEW j \in 1..Len(streams'[s].entries), NEW k \in 1..Len(streams'[t].entries),
               streams'[s].entries[j] = streams'[t].entries[k]
        PROVE  s = t /\ j = k
    <3>1. CASE streams'[s].entries[j] = e
      BY <1>11, <1>12, <2>1, <3>1
    <3>2. CASE streams'[s].entries[j] # e
      <4>1. j \in 1..Len(streams[s].entries) /\ streams'[s].entries[j] = streams[s].entries[j]
        BY <1>11, <3>2
      <4>2. k \in 1..Len(streams[t].entries) /\ streams'[t].entries[k] = streams[t].entries[k]
        BY <1>11, <2>1, <3>2
      <4> QED
        BY <2>1, <4>1, <4>2 DEF LinesApart
    <3> QED
      BY <3>1, <3>2
  <2>2. Len(streams') = n
    BY <1>9
  <2> QED
    BY <2>1, <2>2, ApartThen
<1>14. ASSUME NEW x \in Audit!Written' PROVE x \in Audit!Written \cup {e}
  <2>1. CASE x \in deleted
    BY <2>1, WrittenNow
  <2>2. CASE x \notin deleted
    <3>1. PICK s \in 1..n : \E k \in 1..Len(streams'[s].entries) : streams'[s].entries[k] = x
      BY <1>9, <2>2, WrittenThen
    <3> QED
      BY <1>11, <3>1, WrittenNow
  <2> QED
    BY <2>1, <2>2
<1>15. ASSUME NEW x \in Audit!Written PROVE x \in Audit!Written'
  <2>1. CASE x \in deleted
    BY <1>9, <2>1, WrittenThen
  <2>2. CASE x \notin deleted
    <3>1. PICK s \in 1..n : \E k \in 1..Len(streams[s].entries) : streams[s].entries[k] = x
      BY <2>2, WrittenNow
    <3> QED
      BY <1>9, <1>12, <3>1, WrittenThen
  <2> QED
    BY <2>1, <2>2
<1>16. e \in Audit!Written'
  <2>1. l + 1 \in 1..Len(streams'[c].entries) /\ streams'[c].entries[l + 1] = e
    BY <1>4, <1>10
  <2> QED
    BY <1>9, <2>1, WrittenThen
<1> QED
  BY <1>9, <1>13, <1>14, <1>15, <1>16

\* A stream that ends.
LEMMA EndedFiles ==
    ASSUME streams \in Seq(LogFiles), NEW s \in Nat
    PROVE  /\ Audit!End(s) \in [1..Len(streams) -> LogFiles]
           /\ \A t \in 1..Len(streams) : Audit!End(s)[t].entries = streams[t].entries
<1>1. /\ DOMAIN streams = 1..Len(streams)
      /\ \A t \in 1..Len(streams) : streams[t] \in LogFiles
      /\ streams = [t \in 1..Len(streams) |-> streams[t]]
  BY FilesAre
<1>2. CASE s = 0
  BY <1>1, <1>2 DEF Audit!End
<1>3. CASE s # 0
  <2>1. Audit!End(s) = [t \in 1..Len(streams) |->
                    IF t = s THEN [streams[t] EXCEPT !.state = "ended"] ELSE streams[t]]
    BY <1>1, <1>3 DEF Audit!End
  <2>2. \A f \in LogFiles : /\ [f EXCEPT !.state = "ended"] \in LogFiles
                            /\ [f EXCEPT !.state = "ended"].entries = f.entries
    BY DEF LogFiles
  <2> QED
    BY <1>1, <2>1, <2>2
<1> QED
  BY <1>2, <1>3

\* Old files whose lines are removed, and known to be.
LEMMA FilesCleaned ==
    ASSUME streams \in Seq(LogFiles), LinesApart, NEW n \in Nat, n = Len(streams),
           NEW old \in SUBSET (1..n), NEW t \in [1..n -> LogFiles],
           \A s \in 1..n : t[s].entries = streams[s].entries,
           streams' = [s \in 1..n |-> IF s \in old THEN [t[s] EXCEPT !.entries = <<>>] ELSE t[s]],
           deleted' = deleted \cup UNION {Audit!Range(streams[s].entries) : s \in old}
    PROVE  /\ streams' \in Seq(LogFiles) /\ Len(streams') = n
           /\ LinesApart' /\ Audit!Written' = Audit!Written
<1>1. \A f \in LogFiles : /\ [f EXCEPT !.entries = <<>>] \in LogFiles
                          /\ [f EXCEPT !.entries = <<>>].entries = <<>>
  BY EmptyEntries DEF LogFiles
<1>2. streams' \in [1..n -> LogFiles]
  BY <1>1
<1>3. streams' \in Seq(LogFiles) /\ Len(streams') = n
  BY <1>2, FilesFrom
<1>4. /\ \A s \in old : streams'[s].entries = <<>>
      /\ \A s \in (1..n) \ old : streams'[s].entries = streams[s].entries
  BY <1>1
<1>5. 1..Len(<<>>) = {}
  OBVIOUS
<1>6. ASSUME NEW s \in 1..n, NEW k \in 1..Len(streams'[s].entries)
      PROVE  k \in 1..Len(streams[s].entries) /\ streams'[s].entries[k] = streams[s].entries[k]
  BY <1>4, <1>5
<1>7. LinesApart'
  <2>1. ASSUME NEW s \in 1..n, NEW v \in 1..n,
               NEW j \in 1..Len(streams'[s].entries), NEW k \in 1..Len(streams'[v].entries),
               streams'[s].entries[j] = streams'[v].entries[k]
        PROVE  s = v /\ j = k
    BY <1>6, <2>1 DEF LinesApart
  <2> QED
    BY <1>3, <2>1, ApartThen
<1>8. \A s \in 1..n : \A e : e \in Audit!Range(streams[s].entries) <=>
                           \E k \in 1..Len(streams[s].entries) : streams[s].entries[k] = e
  BY FilesAre, RangeOf
<1>9. \A e : e \in deleted' <=> e \in deleted \/ \E s \in old : e \in Audit!Range(streams[s].entries)
  OBVIOUS
<1>10. ASSUME NEW e \in Audit!Written' PROVE e \in Audit!Written
  <2>1. CASE e \in deleted'
    <3>1. CASE e \in deleted
      BY <3>1, WrittenNow
    <3>2. CASE e \notin deleted
      <4>1. PICK s \in old : e \in Audit!Range(streams[s].entries)
        BY <1>9, <2>1, <3>2
      <4>2. \E k \in 1..Len(streams[s].entries) : streams[s].entries[k] = e
        BY <1>8, <4>1
      <4> QED
        BY <4>2, WrittenNow
    <3> QED
      BY <3>1, <3>2
  <2>2. CASE e \notin deleted'
    <3>1. PICK s \in 1..n : \E k \in 1..Len(streams'[s].entries) : streams'[s].entries[k] = e
      BY <1>3, <2>2, WrittenThen
    <3> QED
      BY <1>6, <3>1, WrittenNow
  <2> QED
    BY <2>1, <2>2
<1>11. ASSUME NEW e \in Audit!Written PROVE e \in Audit!Written'
  <2>1. CASE e \in deleted
    BY <1>3, <1>9, <2>1, WrittenThen
  <2>2. CASE e \notin deleted
    <3>1. PICK s \in 1..n : \E k \in 1..Len(streams[s].entries) : streams[s].entries[k] = e
      BY <2>2, WrittenNow
    <3>2. CASE s \in old
      BY <1>3, <1>8, <1>9, <3>1, <3>2, WrittenThen
    <3>3. CASE s \notin old
      BY <1>3, <1>4, <3>1, <3>3, WrittenThen
    <3> QED
      BY <3>2, <3>3
  <2> QED
    BY <2>1, <2>2
<1> QED
  BY <1>3, <1>7, <1>10, <1>11

-----------------------------------------------------------------------------
(* Steps. *)

LEMMA LogBegins == Audit!Init => LogInv
<1> SUFFICES ASSUME Audit!Init PROVE LogInv
  OBVIOUS
<1>1. /\ auditBuffer = <<>> /\ streams = <<>> /\ stream = 0 /\ flushes = {} /\ logged = 0
      /\ deleted = {} /\ lost = {} /\ Len(<<>>) = 0 /\ DOMAIN streams = {}
  BY DEF Audit!Init
<1>2. LogTyped
  BY <1>1, FS_EmptySet DEF LogTyped
<1>3. FlushesApart /\ LinesApart /\ NoTwice(auditBuffer)
  BY <1>1, EmptyEntries DEF FlushesApart, LinesApart
<1>4. Audit!Written = {} /\ Audit!UnderWay = {} /\ Audit!Range(auditBuffer) = {}
  BY <1>1, EmptyEntries DEF Audit!Written, Audit!UnderWay, Audit!Range
<1>5. Shared({}, {}, {}, {}, 0)
  BY DEF Shared
<1> QED
  BY <1>1, <1>2, <1>3, <1>4, <1>5 DEF LogInv

\* When the files and what they hold stay.
LEMMA FilesUnchanged ==
    ASSUME LogTyped, LinesApart, UNCHANGED Audit!fileVars, deleted' = deleted
    PROVE  /\ streams' \in Seq(LogFiles) /\ stream' \in Nat /\ stream' <= Len(streams')
           /\ LinesApart' /\ Audit!Written' = Audit!Written /\ Len(streams') = Len(streams)
BY DEF LogTyped, LinesApart, Audit!Written, Audit!fileVars

\* A flush that takes all of the buffer, or of the buffer and an entry.
LEMMA FlushTakes ==
    ASSUME LogInv, NEW entries \in Seq(Nat), NoTwice(entries), NEW by \in {"full", "timer", "dispose"},
           Audit!Range(entries) \cap Audit!UnderWay = {}, flushes' = flushes \cup {Audit!Flush(entries, by)},
           UNCHANGED Audit!fileVars
    PROVE  /\ Audit!UnderWay' = Audit!UnderWay \cup Audit!Range(entries) /\ FlushesApart'
           /\ flushes' \subseteq LogFlushes /\ IsFiniteSet(flushes')
           /\ \A f \in flushes' : f.at \notin {"dir", "stuck"} => f.stream \in 1..Len(streams')
<1>1. PICK g : g = Audit!Flush(entries, by)
  OBVIOUS
<1>2. g \in LogFlushes /\ g.entries = entries /\ g.at = "dir"
  BY <1>1 DEF Audit!Flush, LogFlushes
<1>3. LogTyped /\ FlushesApart
  BY DEF LogInv
<1>4. /\ Audit!UnderWay' = Audit!UnderWay \cup Audit!Range(g.entries) /\ FlushesApart'
      /\ flushes' \subseteq LogFlushes /\ IsFiniteSet(flushes')
  BY <1>1, <1>2, <1>3, FlushAdded
<1>5. \A f \in flushes' : f.at \notin {"dir", "stuck"} => f.stream \in 1..Len(streams')
  BY <1>1, <1>2, <1>3 DEF LogTyped, Audit!fileVars
<1> QED
  BY <1>2, <1>4, <1>5

LEMMA LogLog == ASSUME LogInv, Audit!Log PROVE LogInv'
<1> USE DEF LogInv
<1>1. PICK entries : entries = Append(auditBuffer, logged + 1)
  OBVIOUS
<1> DEFINE full == Len(entries) >= BufferSize
<1>3. /\ logged' = logged + 1
      /\ full => auditBuffer' = <<>> /\ flushes' = flushes \cup {Audit!Flush(entries, "full")}
      /\ ~full => auditBuffer' = entries /\ flushes' = flushes
      /\ UNCHANGED Audit!fileVars /\ UNCHANGED <<disposal, deleted, lost>>
  BY <1>1 DEF Audit!Log, Audit!Taken
<1> HIDE DEF full
<1>4. PICK n \in Nat : n = logged
  BY DEF LogTyped
<1>5. n + 1 \notin 1..n /\ 1..(n + 1) = (1..n) \cup {n + 1}
  OBVIOUS
<1>6. /\ entries \in Seq(Nat) /\ Audit!Range(entries) = Audit!Range(auditBuffer) \cup {n + 1} /\ NoTwice(entries)
      /\ Audit!Range(entries) \cap Audit!UnderWay = {}
  <2>1. n + 1 \notin Audit!Range(auditBuffer) /\ n + 1 \notin Audit!UnderWay
    BY <1>4, <1>5 DEF Shared
  <2>2. /\ entries \in Seq(Nat) /\ Audit!Range(entries) = Audit!Range(auditBuffer) \cup {n + 1} /\ NoTwice(entries)
    BY <1>1, <1>4, <2>1, RangeAppend DEF LogTyped
  <2> QED
    BY <2>1, <2>2 DEF Shared
<1>7. /\ streams' \in Seq(LogFiles) /\ stream' \in Nat /\ stream' <= Len(streams')
      /\ LinesApart' /\ Audit!Written' = Audit!Written /\ Len(streams') = Len(streams)
  BY <1>3, FilesUnchanged
<1>8. CASE full
  <2>1. /\ Audit!UnderWay' = Audit!UnderWay \cup Audit!Range(entries) /\ FlushesApart'
        /\ flushes' \subseteq LogFlushes /\ IsFiniteSet(flushes')
        /\ \A f \in flushes' : f.at \notin {"dir", "stuck"} => f.stream \in 1..Len(streams')
    BY <1>3, <1>6, <1>8, FlushTakes
  <2>2. auditBuffer' = <<>> /\ Audit!Range(auditBuffer') = {} /\ NoTwice(auditBuffer') /\ auditBuffer' \in Seq(Nat)
    BY <1>3, <1>8, EmptyEntries
  <2>3. LogTyped'
    BY <1>3, <1>4, <1>7, <2>1, <2>2 DEF LogTyped
  <2>4. Shared(Audit!Written', Audit!UnderWay', Audit!Range(auditBuffer'), lost', logged')
    <3>1. Shared(Audit!Written, Audit!UnderWay \cup Audit!Range(entries), {}, lost, n + 1)
      BY <1>4, <1>5, <1>6 DEF Shared
    <3> QED
      BY <1>3, <1>4, <1>7, <2>1, <2>2, <3>1
  <2> QED
    BY <1>7, <2>1, <2>2, <2>3, <2>4
<1>9. CASE ~full
  <2>1. flushes' = flushes /\ auditBuffer' = entries /\ Audit!UnderWay' = Audit!UnderWay /\ FlushesApart'
    BY <1>3, <1>9 DEF Audit!UnderWay, FlushesApart
  <2>4. \A f \in flushes' : f.at \notin {"dir", "stuck"} => f.stream \in 1..Len(streams')
    BY <1>7, <2>1 DEF LogTyped
  <2>5. flushes' \subseteq LogFlushes /\ IsFiniteSet(flushes')
    BY <2>1 DEF LogTyped
  <2>2. LogTyped'
    BY <1>3, <1>4, <1>6, <1>7, <2>1, <2>4, <2>5 DEF LogTyped
  <2>3. Shared(Audit!Written', Audit!UnderWay', Audit!Range(auditBuffer'), lost', logged')
    <3>1. Shared(Audit!Written, Audit!UnderWay, Audit!Range(entries), lost, n + 1)
      BY <1>4, <1>5, <1>6 DEF Shared
    <3> QED
      BY <1>3, <1>4, <1>7, <2>1, <3>1
  <2> QED
    BY <1>6, <1>7, <2>1, <2>2, <2>3
<1> QED
  BY <1>8, <1>9

\* A flush of all that is in the buffer.
LEMMA BufferFlushed ==
    ASSUME LogInv, NEW by \in {"full", "timer", "dispose"}, auditBuffer' = <<>>,
           flushes' = flushes \cup {Audit!Flush(auditBuffer, by)},
           UNCHANGED Audit!fileVars, UNCHANGED <<logged, deleted, lost>>
    PROVE  LogInv'
<1> USE DEF LogInv
<1>1. /\ streams' \in Seq(LogFiles) /\ stream' \in Nat /\ stream' <= Len(streams')
      /\ LinesApart' /\ Audit!Written' = Audit!Written
  BY FilesUnchanged
<1>2. auditBuffer \in Seq(Nat) /\ NoTwice(auditBuffer) /\ Audit!Range(auditBuffer) \cap Audit!UnderWay = {}
  BY DEF LogTyped, Shared
<1>3. /\ Audit!UnderWay' = Audit!UnderWay \cup Audit!Range(auditBuffer) /\ FlushesApart'
      /\ flushes' \subseteq LogFlushes /\ IsFiniteSet(flushes')
      /\ \A f \in flushes' : f.at \notin {"dir", "stuck"} => f.stream \in 1..Len(streams')
  BY <1>2, FlushTakes
<1>4. auditBuffer' = <<>> /\ Audit!Range(auditBuffer') = {} /\ NoTwice(auditBuffer') /\ auditBuffer' \in Seq(Nat)
  BY EmptyEntries
<1>5. LogTyped'
  BY <1>1, <1>3, <1>4 DEF LogTyped
<1>6. Shared(Audit!Written', Audit!UnderWay', Audit!Range(auditBuffer'), lost', logged')
  <2>1. Shared(Audit!Written, Audit!UnderWay \cup Audit!Range(auditBuffer), {}, lost, logged)
    BY DEF Shared
  <2> QED
    BY <1>1, <1>3, <1>4, <2>1
<1> QED
  BY <1>1, <1>3, <1>4, <1>5, <1>6

LEMMA NothingLogged ==
    ASSUME LogInv, UNCHANGED <<auditBuffer, flushes, Audit!fileVars, logged, deleted, lost>>
    PROVE  LogInv'
<1> USE DEF LogInv
<1>1. LogTyped'
  BY DEF LogTyped, Audit!fileVars
<1>2. FlushesApart' /\ LinesApart' /\ NoTwice(auditBuffer')
  BY DEF FlushesApart, LinesApart, Audit!fileVars
<1>3. Audit!Written' = Audit!Written /\ Audit!UnderWay' = Audit!UnderWay
  BY DEF Audit!Written, Audit!UnderWay, Audit!fileVars
<1> QED
  BY <1>1, <1>2, <1>3

LEMMA LogFlushTimer == ASSUME LogInv, Audit!FlushTimer PROVE LogInv'
<1>1. /\ auditBuffer' = <<>> /\ flushes' = flushes \cup {Audit!Flush(auditBuffer, "timer")}
      /\ UNCHANGED Audit!fileVars /\ UNCHANGED <<logged, deleted, lost>>
  BY DEF Audit!FlushTimer, Audit!Taken
<1> QED
  BY <1>1, BufferFlushed

LEMMA LogDispose == ASSUME LogInv, Audit!Dispose PROVE LogInv'
<1>1. /\ auditBuffer' = <<>> /\ UNCHANGED Audit!fileVars /\ UNCHANGED <<logged, deleted, lost>>
      /\ flushes' = flushes \cup (IF auditBuffer = <<>> THEN {} ELSE {Audit!Flush(auditBuffer, "dispose")})
  BY DEF Audit!Dispose, Audit!Taken
<1>2. CASE auditBuffer # <<>>
  BY <1>1, <1>2, BufferFlushed
<1>3. CASE auditBuffer = <<>>
  <2>1. UNCHANGED <<auditBuffer, flushes, Audit!fileVars, logged, deleted, lost>>
    BY <1>1, <1>3
  <2> QED
    BY <2>1, NothingLogged
<1> QED
  BY <1>2, <1>3

\* A step of one flush: it goes on, with the entries it has or with fewer, or it is gone;
\* what it had and has no more is written or lost.
LEMMA FlushSteps ==
    ASSUME LogInv, NEW f \in flushes, NEW g \in LogFlushes, NoTwice(g.entries),
           Audit!Range(g.entries) \subseteq Audit!Range(f.entries),
           Audit!Becomes(f, g) \/ (flushes' = flushes \ {f} /\ g.entries = <<>>),
           streams' \in Seq(LogFiles), stream' \in Nat, stream' <= Len(streams'), LinesApart',
           \A h \in flushes' : h.at \notin {"dir", "stuck"} => h.stream \in 1..Len(streams'),
           UNCHANGED <<auditBuffer, logged>>,
           NEW w \in SUBSET (Audit!Range(f.entries) \ Audit!Range(g.entries)),
           Audit!Written' = Audit!Written \cup w,
           lost' = lost \cup ((Audit!Range(f.entries) \ Audit!Range(g.entries)) \ w)
    PROVE  LogInv'
<1> USE DEF LogInv
<1>1. /\ Audit!UnderWay' = (Audit!UnderWay \ Audit!Range(f.entries)) \cup Audit!Range(g.entries) /\ FlushesApart'
      /\ flushes' \subseteq LogFlushes /\ IsFiniteSet(flushes')
  <2>1. CASE Audit!Becomes(f, g)
    BY <2>1, FlushBecomes
  <2>2. CASE flushes' = flushes \ {f} /\ g.entries = <<>>
    BY <2>2, FlushGone, EmptyEntries
  <2> QED
    BY <2>1, <2>2
<1>2. LogTyped'
  BY <1>1 DEF LogTyped
<1>3. Audit!Range(f.entries) \subseteq Audit!UnderWay
  BY UnderWayIs
<1>4. Shared(Audit!Written', Audit!UnderWay', Audit!Range(auditBuffer), lost', logged)
  <2>1. PICK u, v, x : u = Audit!UnderWay /\ v = Audit!Range(f.entries) /\ x = Audit!Range(g.entries)
    OBVIOUS
  <2>2. PICK a, b, l : a = Audit!Written /\ b = Audit!Range(auditBuffer) /\ l = lost
    OBVIOUS
  <2>3. Shared(a, u, b, l, logged) /\ v \subseteq u /\ x \subseteq v /\ w \subseteq v \ x
    BY <1>3, <2>1, <2>2
  <2>4. Shared(a \cup w, (u \ v) \cup x, b, l \cup ((v \ x) \ w), logged)
    <3>1. a \cup w \cup ((u \ v) \cup x) \cup b \cup (l \cup ((v \ x) \ w)) = a \cup u \cup b \cup l
      BY <2>3
    <3> QED
      BY <2>3, <3>1 DEF Shared
  <2> QED
    BY <1>1, <2>1, <2>2, <2>4
<1> QED
  BY <1>1, <1>2, <1>4

LEMMA FlushKinds ==
    ASSUME LogInv, NEW f \in flushes
    PROVE  f \in LogFlushes /\ f.entries \in Seq(Nat) /\ NoTwice(f.entries)
<1>1. f \in LogFlushes /\ NoTwice(f.entries)
  BY DEF LogInv, LogTyped, FlushesApart
<1> QED
  BY <1>1 DEF LogFlushes

\* A flush that goes on with all its entries.
LEMMA FlushKeeps ==
    ASSUME LogInv, NEW f \in flushes, NEW g \in LogFlushes, g.entries = f.entries, Audit!Becomes(f, g),
           streams' \in Seq(LogFiles), stream' \in Nat, stream' <= Len(streams'), LinesApart',
           \A h \in flushes' : h.at \notin {"dir", "stuck"} => h.stream \in 1..Len(streams'),
           UNCHANGED <<auditBuffer, logged, lost>>, Audit!Written' = Audit!Written
    PROVE  LogInv'
<1>1. NoTwice(g.entries) /\ Audit!Range(g.entries) \subseteq Audit!Range(f.entries)
  BY FlushKinds
<1>2. PICK w \in SUBSET (Audit!Range(f.entries) \ Audit!Range(g.entries)) : w = {}
  OBVIOUS
<1>3. lost' = lost \cup ((Audit!Range(f.entries) \ Audit!Range(g.entries)) \ w) /\ Audit!Written' = Audit!Written \cup w
  BY <1>2
<1> QED
  BY <1>1, <1>2, <1>3, FlushSteps

\* A flush that loses all it has, and is gone or stuck.
LEMMA FlushLoses ==
    ASSUME LogInv, NEW f \in flushes, NEW g \in LogFlushes, g.entries = <<>>,
           (Audit!Becomes(f, g) /\ g.at = "stuck") \/ flushes' = flushes \ {f}, Audit!Loses(f),
           streams' \in Seq(LogFiles), stream' \in Nat, stream' <= Len(streams'), LinesApart',
           Len(streams') = Len(streams),
           UNCHANGED <<auditBuffer, logged>>, Audit!Written' = Audit!Written
    PROVE  LogInv'
<1>1. NoTwice(g.entries) /\ Audit!Range(g.entries) = {}
  BY EmptyEntries
<1>2. PICK w \in SUBSET (Audit!Range(f.entries) \ Audit!Range(g.entries)) : w = {}
  OBVIOUS
<1>3. lost' = lost \cup ((Audit!Range(f.entries) \ Audit!Range(g.entries)) \ w) /\ Audit!Written' = Audit!Written \cup w
  BY <1>1, <1>2 DEF Audit!Loses
<1>4. \A h \in flushes' : h.at \notin {"dir", "stuck"} => h.stream \in 1..Len(streams')
  BY DEF LogInv, LogTyped, Audit!Becomes
<1> QED
  BY <1>1, <1>2, <1>3, <1>4, FlushSteps

LEMMA LogPrepare == ASSUME LogInv, NEW f \in flushes, Audit!Prepare(f) PROVE LogInv'
<1>1. LogTyped /\ LinesApart
  BY DEF LogInv
<1>2. CASE Audit!Fails(f) /\ UNCHANGED Audit!fileVars
  <2>1. flushes' = flushes \ {f} /\ Audit!Loses(f) /\ UNCHANGED Audit!fileVars /\ UNCHANGED <<auditBuffer, logged, deleted>>
    BY <1>2 DEF Audit!Fails, Audit!Prepare
  <2>2. /\ streams' \in Seq(LogFiles) /\ stream' \in Nat /\ stream' <= Len(streams')
        /\ LinesApart' /\ Audit!Written' = Audit!Written /\ Len(streams') = Len(streams)
    BY <1>1, <2>1, FilesUnchanged
  <2>3. PICK g \in LogFlushes : g.entries = <<>>
    <3>1. [f EXCEPT !.entries = <<>>] \in LogFlushes /\ [f EXCEPT !.entries = <<>>].entries = <<>>
      BY FlushKinds, EmptyEntries DEF LogFlushes
    <3> QED
      BY <3>1
  <2> QED
    BY <2>1, <2>2, <2>3, FlushLoses
<1>3. CASE /\ stream # 0 /\ Audit!Becomes(f, [f EXCEPT !.at = "write", !.stream = stream])
           /\ UNCHANGED <<stream, streams, lost>>
  <2>1. UNCHANGED <<auditBuffer, logged, deleted, lost, stream, streams>>
    BY <1>3 DEF Audit!Prepare
  <2>2. /\ streams' \in Seq(LogFiles) /\ stream' \in Nat /\ stream' <= Len(streams')
        /\ LinesApart' /\ Audit!Written' = Audit!Written
    BY <1>1, <2>1 DEF LogTyped, LinesApart, Audit!Written
  <2>3. PICK g : g = [f EXCEPT !.at = "write", !.stream = stream]
    OBVIOUS
  <2>4. g \in LogFlushes /\ g.entries = f.entries /\ g.stream = stream
    <3>1. f \in LogFlushes /\ stream \in Nat
      BY <1>1, FlushKinds DEF LogTyped
    <3> QED
      BY <2>3, <3>1 DEF LogFlushes
  <2>5. stream \in 1..Len(streams)
    BY <1>1, <1>3, FilesAre DEF LogTyped
  <2>6. \A h \in flushes' : h.at \notin {"dir", "stuck"} => h.stream \in 1..Len(streams')
    BY <1>1, <1>3, <2>1, <2>3, <2>4, <2>5 DEF LogTyped, Audit!Becomes
  <2> QED
    BY <1>3, <2>1, <2>2, <2>3, <2>4, <2>6, FlushKeeps
<1>4. CASE /\ stream = 0 /\ stream' = Len(streams) + 1
           /\ streams' = Append(streams, [state |-> "opening", entries |-> <<>>])
           /\ Audit!Becomes(f, [f EXCEPT !.at = "open", !.stream = Len(streams) + 1])
           /\ UNCHANGED lost
  <2>1. UNCHANGED <<auditBuffer, logged, deleted, lost>>
    BY <1>4 DEF Audit!Prepare
  <2>2. PICK n \in Nat : n = Len(streams)
    BY <1>1, FilesAre DEF LogTyped
  <2>3. /\ streams' \in Seq(LogFiles) /\ Len(streams') = n + 1 /\ LinesApart' /\ Audit!Written' = Audit!Written
    BY <1>1, <1>4, <2>1, <2>2, FileAdded DEF LogTyped
  <2>4. PICK g : g = [f EXCEPT !.at = "open", !.stream = n + 1]
    OBVIOUS
  <2>5. g \in LogFlushes /\ g.entries = f.entries /\ g.stream = n + 1
    <3>1. n + 1 \in Nat /\ f \in LogFlushes
      BY FlushKinds
    <3> QED
      BY <2>4, <3>1 DEF LogFlushes
  <2>6. \A h \in flushes' : h.at \notin {"dir", "stuck"} => h.stream \in 1..Len(streams')
    <3>1. \A m \in 1..n : m \in 1..(n + 1)
      OBVIOUS
    <3>2. n + 1 \in 1..(n + 1)
      OBVIOUS
    <3> QED
      BY <1>1, <1>4, <2>2, <2>3, <2>4, <2>5, <3>1, <3>2 DEF LogTyped, Audit!Becomes
  <2>7. stream' \in Nat /\ stream' <= Len(streams')
    BY <1>4, <2>2, <2>3
  <2> QED
    BY <1>4, <2>1, <2>2, <2>3, <2>4, <2>5, <2>6, <2>7, FlushKeeps
<1> QED
  BY <1>2, <1>3, <1>4 DEF Audit!Prepare

\* A flush that goes on in a file there is, while states of files change at most.
LEMMA FlushGoesOn ==
    ASSUME LogInv, NEW f \in flushes, f.stream \in 1..Len(streams), NEW a \in {"write", "drain", "rotate"},
           Audit!Becomes(f, [f EXCEPT !.at = a]),
           NEW n \in Nat, n = Len(streams), streams' \in [1..n -> LogFiles],
           \A s \in 1..n : streams'[s].entries = streams[s].entries,
           stream' \in Nat, stream' <= n,
           UNCHANGED <<auditBuffer, logged, deleted, lost>>
    PROVE  LogInv'
<1>1. LogTyped /\ LinesApart
  BY DEF LogInv
<1>2. PICK g : g = [f EXCEPT !.at = a]
  OBVIOUS
<1>3. g \in LogFlushes /\ g.entries = f.entries /\ g.stream = f.stream
  <2>1. f \in LogFlushes
    BY FlushKinds
  <2> QED
    BY <1>2, <2>1 DEF LogFlushes
<1>4. streams' \in Seq(LogFiles) /\ Len(streams') = n /\ LinesApart' /\ Audit!Written' = Audit!Written
  BY <1>1, LinesStay DEF LogTyped
<1>5. \A h \in flushes' : h.at \notin {"dir", "stuck"} => h.stream \in 1..Len(streams')
  BY <1>1, <1>2, <1>3, <1>4 DEF LogTyped, Audit!Becomes
<1> QED
  BY <1>2, <1>3, <1>4, <1>5, FlushKeeps

LEMMA LogOpened == ASSUME LogInv, NEW f \in flushes, Audit!Opened(f) PROVE LogInv'
<1>1. /\ LogTyped /\ LinesApart /\ f.at = "open" /\ f.stream \in 1..Len(streams)
      /\ UNCHANGED <<auditBuffer, logged, deleted, stream>>
  BY DEF LogInv, LogTyped, Audit!Opened
<1>2. PICK n \in Nat : n = Len(streams) /\ DOMAIN streams = 1..n
  BY <1>1, FilesAre DEF LogTyped
<1>3. \A s \in 1..n : streams[s] \in LogFiles
  BY <1>1, <1>2, FilesAre DEF LogTyped
<1>4. PICK now \in {"opening", "open", "failed", "ended"} :
        streams' = [streams EXCEPT ![f.stream].state = now]
  <2>1. streams[f.stream].state \in {"opening", "open", "failed", "ended"}
    BY <1>1, <1>2, <1>3 DEF LogFiles
  <2> QED
    BY <2>1 DEF Audit!Opened
<1>5. /\ streams' \in [1..n -> LogFiles]
      /\ \A s \in 1..n : streams'[s].entries = streams[s].entries
  <2>1. \A h \in LogFiles : /\ [h EXCEPT !.state = now] \in LogFiles
                            /\ [h EXCEPT !.state = now].entries = h.entries
    BY DEF LogFiles
  <2>2. streams' = [s \in 1..n |-> IF s = f.stream THEN [streams[s] EXCEPT !.state = now] ELSE streams[s]]
    BY <1>2, <1>4
  <2> QED
    BY <1>3, <2>1, <2>2
<1>6. CASE Audit!Becomes(f, [f EXCEPT !.at = "write"]) /\ UNCHANGED lost
  BY <1>1, <1>2, <1>5, <1>6, FlushGoesOn DEF LogTyped
<1>7. CASE Audit!Fails(f)
  <2>1. flushes' = flushes \ {f} /\ Audit!Loses(f)
    BY <1>7 DEF Audit!Fails
  <2>2. streams' \in Seq(LogFiles) /\ Len(streams') = n /\ LinesApart' /\ Audit!Written' = Audit!Written
    BY <1>1, <1>2, <1>5, LinesStay DEF LogTyped
  <2>3. PICK g \in LogFlushes : g.entries = <<>>
    <3>1. [f EXCEPT !.entries = <<>>] \in LogFlushes /\ [f EXCEPT !.entries = <<>>].entries = <<>>
      BY FlushKinds, EmptyEntries DEF LogFlushes
    <3> QED
      BY <3>1
  <2> QED
    BY <1>1, <1>2, <2>1, <2>2, <2>3, FlushLoses DEF LogTyped
<1> QED
  BY <1>6, <1>7 DEF Audit!Opened

LEMMA LogDrained == ASSUME LogInv, NEW f \in flushes, Audit!Drained(f) PROVE LogInv'
<1>1. /\ LogTyped /\ LinesApart /\ f.at = "drain" /\ f.stream \in 1..Len(streams)
      /\ UNCHANGED <<auditBuffer, logged, deleted>> /\ UNCHANGED Audit!fileVars
  BY DEF LogInv, LogTyped, Audit!Drained
<1>2. /\ streams' \in Seq(LogFiles) /\ stream' \in Nat /\ stream' <= Len(streams')
      /\ LinesApart' /\ Audit!Written' = Audit!Written /\ Len(streams') = Len(streams)
  BY <1>1, FilesUnchanged
<1>3. CASE Audit!Takes(f.stream)
  <2>1. PICK a \in {"write", "rotate"} : a = Audit!IfFull(currentFileSize)
    BY DEF Audit!IfFull
  <2>2. PICK g : g = [f EXCEPT !.at = a]
    OBVIOUS
  <2>3. Audit!Becomes(f, g) /\ UNCHANGED lost
    BY <1>3, <2>1, <2>2 DEF Audit!Drained
  <2>4. g \in LogFlushes /\ g.entries = f.entries /\ g.stream = f.stream
    <3>1. f \in LogFlushes
      BY FlushKinds
    <3> QED
      BY <2>2, <3>1 DEF LogFlushes
  <2>5. \A h \in flushes' : h.at \notin {"dir", "stuck"} => h.stream \in 1..Len(streams')
    BY <1>1, <1>2, <2>3, <2>4 DEF LogTyped, Audit!Becomes
  <2> QED
    BY <1>1, <1>2, <2>3, <2>4, <2>5, FlushKeeps
<1>4. CASE ~Audit!Takes(f.stream)
  <2>1. PICK g : g = [f EXCEPT !.at = "stuck", !.entries = <<>>]
    OBVIOUS
  <2>2. g \in LogFlushes /\ g.entries = <<>> /\ g.at = "stuck"
    <3>1. f \in LogFlushes /\ <<>> \in Seq(Nat)
      BY FlushKinds, EmptyEntries
    <3> QED
      BY <2>1, <3>1 DEF LogFlushes
  <2>3. Audit!Becomes(f, g) /\ Audit!Loses(f)
    BY <1>4, <2>1 DEF Audit!Drained
  <2> QED
    BY <1>1, <1>2, <2>2, <2>3, FlushLoses
<1> QED
  BY <1>3, <1>4

LEMMA LogWriteAfterEnd == ASSUME LogInv, NEW f \in flushes, Audit!WriteAfterEnd(f) PROVE LogInv'
<1>1. /\ LogTyped /\ LinesApart /\ UNCHANGED <<auditBuffer, logged, deleted>> /\ UNCHANGED Audit!fileVars
  BY DEF LogInv, Audit!WriteAfterEnd
<1>2. /\ streams' \in Seq(LogFiles) /\ stream' \in Nat /\ stream' <= Len(streams')
      /\ LinesApart' /\ Audit!Written' = Audit!Written /\ Len(streams') = Len(streams)
  BY <1>1, FilesUnchanged
<1>3. PICK g : g = [f EXCEPT !.at = "stuck", !.entries = <<>>]
  OBVIOUS
<1>4. g \in LogFlushes /\ g.entries = <<>> /\ g.at = "stuck"
  <2>1. f \in LogFlushes /\ <<>> \in Seq(Nat)
    BY FlushKinds, EmptyEntries
  <2> QED
    BY <1>3, <2>1 DEF LogFlushes
<1>5. Audit!Becomes(f, g) /\ Audit!Loses(f)
  BY <1>3 DEF Audit!WriteAfterEnd
<1> QED
  BY <1>1, <1>2, <1>4, <1>5, FlushLoses

LEMMA LogWrite == ASSUME LogInv, NEW f \in flushes, Audit!Write(f) PROVE LogInv'
<1>1. /\ LogTyped /\ LinesApart /\ f.at = "write" /\ f.entries # <<>> /\ f.stream \in 1..Len(streams)
      /\ UNCHANGED <<auditBuffer, logged, deleted, lost, stream>>
      /\ streams' = [streams EXCEPT ![f.stream].entries = Append(@, Head(f.entries))]
  BY DEF LogInv, LogTyped, Audit!Write
<1>2. PICK a \in {"write", "drain", "rotate"} :
        Audit!Becomes(f, [[f EXCEPT !.entries = Tail(@)] EXCEPT !.at = a])
  BY DEF Audit!Write, Audit!IfFull
<1>3. PICK n \in Nat : n = Len(streams)
  BY <1>1, FilesAre DEF LogTyped
<1>4. f \in LogFlushes /\ f.entries \in Seq(Nat) /\ NoTwice(f.entries)
  BY FlushKinds
<1>5. PICK e, rest : e = Head(f.entries) /\ rest = Tail(f.entries)
  OBVIOUS
<1>6. /\ e \in Nat /\ rest \in Seq(Nat) /\ NoTwice(rest)
      /\ Audit!Range(f.entries) = Audit!Range(rest) \cup {e} /\ e \notin Audit!Range(rest)
  BY <1>1, <1>4, <1>5, RangeTail
<1>7. PICK g : g = [[f EXCEPT !.entries = Tail(@)] EXCEPT !.at = a]
  OBVIOUS
<1>8. g \in LogFlushes /\ g.entries = rest /\ g.stream = f.stream
  BY <1>4, <1>5, <1>6, <1>7 DEF LogFlushes
<1>9. e \notin Audit!Written
  <2>1. e \in Audit!UnderWay
    BY <1>6, UnderWayIs
  <2> QED
    BY <2>1 DEF LogInv, Shared
<1>10. /\ streams' \in Seq(LogFiles) /\ Len(streams') = n
       /\ LinesApart' /\ Audit!Written' = Audit!Written \cup {e}
  BY <1>1, <1>3, <1>5, <1>6, <1>9, LineWritten DEF LogTyped
<1>11. \A h \in flushes' : h.at \notin {"dir", "stuck"} => h.stream \in 1..Len(streams')
  BY <1>1, <1>2, <1>3, <1>7, <1>8, <1>10 DEF LogTyped, Audit!Becomes
<1>12. PICK w \in SUBSET (Audit!Range(f.entries) \ Audit!Range(g.entries)) : w = {e}
  BY <1>6, <1>8
<1>13. lost' = lost \cup ((Audit!Range(f.entries) \ Audit!Range(g.entries)) \ w)
  BY <1>1, <1>6, <1>8, <1>12
<1>14. stream' \in Nat /\ stream' <= Len(streams') /\ UNCHANGED <<auditBuffer, logged>>
  BY <1>1, <1>3, <1>10 DEF LogTyped
<1>15. NoTwice(g.entries) /\ Audit!Range(g.entries) \subseteq Audit!Range(f.entries) /\ Audit!Becomes(f, g)
       /\ Audit!Written' = Audit!Written \cup w
  BY <1>2, <1>6, <1>7, <1>8, <1>10, <1>12
<1> QED
  BY <1>8, <1>10, <1>11, <1>13, <1>14, <1>15, FlushSteps

LEMMA LogRotate == ASSUME LogBounds, LogInv, NEW f \in flushes, Audit!Rotate(f) PROVE LogInv'
<1>1. /\ LogTyped /\ LinesApart /\ f.at = "rotate" /\ f.stream \in 1..Len(streams)
      /\ UNCHANGED <<auditBuffer, logged, lost>> /\ stream' = 0
      /\ streams \in Seq(LogFiles) /\ stream \in Nat
  BY DEF LogInv, LogTyped, Audit!Rotate
<1>2. PICK n \in Nat : n = Len(streams) /\ DOMAIN streams = 1..n
  BY <1>1, FilesAre
<1>3. PICK t : t = Audit!End(stream)
  OBVIOUS
<1>4. t \in [1..n -> LogFiles] /\ \A s \in 1..n : t[s].entries = streams[s].entries
  BY <1>1, <1>2, <1>3, EndedFiles
<1>5. PICK old : old = 1..(n - AuditFiles)
  OBVIOUS
<1>6. old \in SUBSET (1..n)
  BY <1>5 DEF LogBounds
<1>7. streams' \in Seq(LogFiles) /\ Len(streams') = n /\ LinesApart' /\ Audit!Written' = Audit!Written
  <2>1. CASE /\ streams' = [s \in DOMAIN streams |->
                            IF s \in old THEN [t[s] EXCEPT !.entries = <<>>] ELSE t[s]]
             /\ deleted' = deleted \cup UNION {Audit!Range(streams[s].entries) : s \in old}
    <3>1. streams' = [s \in 1..n |-> IF s \in old THEN [t[s] EXCEPT !.entries = <<>>] ELSE t[s]]
      BY <1>2, <2>1
    <3> QED
      BY <1>1, <1>2, <1>4, <1>6, <2>1, <3>1, FilesCleaned
  <2>2. CASE streams' = t /\ deleted' = deleted
    BY <1>1, <1>2, <1>4, <2>2, LinesStay
  <2> QED
    BY <1>2, <1>3, <1>5, <2>1, <2>2 DEF Audit!Rotate
<1>8. PICK g : g = [f EXCEPT !.at = "write"]
  OBVIOUS
<1>9. g \in LogFlushes /\ g.entries = f.entries /\ g.stream = f.stream
  <2>1. f \in LogFlushes
    BY FlushKinds
  <2> QED
    BY <1>8, <2>1 DEF LogFlushes
<1>10. Audit!Becomes(f, g)
  BY <1>8 DEF Audit!Rotate
<1>11. \A h \in flushes' : h.at \notin {"dir", "stuck"} => h.stream \in 1..Len(streams')
  BY <1>1, <1>2, <1>7, <1>9, <1>10 DEF LogTyped, Audit!Becomes
<1>12. stream' \in Nat /\ stream' <= Len(streams')
  BY <1>1, <1>7
<1> QED
  BY <1>1, <1>7, <1>9, <1>10, <1>11, <1>12, FlushKeeps

LEMMA LogFinish == ASSUME LogInv, NEW f \in flushes, Audit!Finish(f) PROVE LogInv'
<1>1. /\ LogTyped /\ LinesApart /\ flushes' = flushes \ {f} /\ f.entries = <<>>
      /\ UNCHANGED <<auditBuffer, logged, deleted, lost>> /\ UNCHANGED Audit!fileVars
  BY DEF LogInv, Audit!Finish
<1>2. /\ streams' \in Seq(LogFiles) /\ stream' \in Nat /\ stream' <= Len(streams')
      /\ LinesApart' /\ Audit!Written' = Audit!Written /\ Len(streams') = Len(streams)
  BY <1>1, FilesUnchanged
<1>3. f \in LogFlushes
  BY FlushKinds
<1>4. Audit!Loses(f)
  BY <1>1, EmptyEntries DEF Audit!Loses
<1> QED
  BY <1>1, <1>2, <1>3, <1>4, FlushLoses

LEMMA LogDisposeEnds == ASSUME LogInv, Audit!DisposeEnds PROVE LogInv'
<1>1. /\ LogTyped /\ LinesApart /\ FlushesApart /\ NoTwice(auditBuffer)
      /\ UNCHANGED <<auditBuffer, logged, deleted, lost, flushes>>
      /\ stream' = 0 /\ streams' = Audit!End(stream) /\ streams \in Seq(LogFiles) /\ stream \in Nat
  BY DEF LogInv, LogTyped, Audit!DisposeEnds
<1>2. PICK n \in Nat : n = Len(streams)
  BY <1>1, FilesAre
<1>3. /\ streams' \in [1..n -> LogFiles]
      /\ \A s \in 1..n : streams'[s].entries = streams[s].entries
  BY <1>1, <1>2, EndedFiles
<1>4. streams' \in Seq(LogFiles) /\ Len(streams') = n /\ LinesApart' /\ Audit!Written' = Audit!Written
  BY <1>1, <1>2, <1>3, LinesStay
<1>5. LogTyped'
  BY <1>1, <1>2, <1>4 DEF LogTyped
<1>6. FlushesApart' /\ Audit!UnderWay' = Audit!UnderWay
  BY <1>1 DEF FlushesApart, Audit!UnderWay
<1>7. Shared(Audit!Written', Audit!UnderWay', Audit!Range(auditBuffer'), lost', logged')
  BY <1>1, <1>4, <1>6 DEF LogInv
<1> QED
  BY <1>1, <1>4, <1>5, <1>6, <1>7 DEF LogInv

LEMMA LogGoesOn == ASSUME LogBounds, LogInv, [Audit!Next]_Audit!vars PROVE LogInv'
<1>1. CASE UNCHANGED Audit!vars
  <2>1. UNCHANGED <<auditBuffer, flushes, Audit!fileVars, logged, deleted, lost>>
    BY <1>1 DEF Audit!vars
  <2> QED
    BY <2>1, NothingLogged
<1>2. CASE Audit!Log \/ Audit!FlushTimer \/ Audit!Dispose \/ Audit!DisposeEnds
  BY <1>2, LogLog, LogFlushTimer, LogDispose, LogDisposeEnds
<1>3. ASSUME NEW f \in flushes, Audit!Step(f) \/ Audit!Write(f) \/ Audit!WriteAfterEnd(f) \/ Audit!Finish(f) PROVE LogInv'
  BY <1>3, LogPrepare, LogOpened, LogDrained, LogRotate, LogWrite, LogWriteAfterEnd, LogFinish DEF Audit!Step
<1> QED
  BY <1>1, <1>2, <1>3 DEF Audit!Next

-----------------------------------------------------------------------------
(* Counting. *)

LEMMA BufferCounts ==
    ASSUME NEW s \in Seq(Nat), NoTwice(s)
    PROVE  IsFiniteSet(Audit!Range(s)) /\ Cardinality(Audit!Range(s)) = Len(s)
<1>1. PICK c \in Nat : c = Len(s) /\ DOMAIN s = 1..c
  BY RangeOf
<1>2. \A e : e \in Audit!Range(s) <=> \E k \in 1..c : s[k] = e
  BY <1>1, RangeOf
<1>3. s \in Bijection(1..c, Audit!Range(s))
  <2>1. s \in [1..c -> Audit!Range(s)]
    <3>1. s = [k \in 1..c |-> s[k]]
      BY <1>1, SeqDef
    <3> QED
      BY <1>2, <3>1
  <2>2. \A j, k \in 1..c : s[j] = s[k] => j = k
    BY <1>1 DEF NoTwice
  <2> QED
    BY <1>2, <2>1, <2>2 DEF Bijection, Injection, Surjection, IsInjective
<1>4. IsFiniteSet(1..c) /\ Cardinality(1..c) = c
  BY FS_Interval
<1>5. ExistsBijection(1..c, Audit!Range(s))
  BY <1>3 DEF ExistsBijection
<1> QED
  BY <1>1, <1>4, <1>5, FS_Bijection

LEMMA TwoApart ==
    ASSUME NEW S, NEW T, IsFiniteSet(S), IsFiniteSet(T), S \cap T = {}
    PROVE  /\ IsFiniteSet(S \cup T) /\ Cardinality(S) \in Nat /\ Cardinality(T) \in Nat
           /\ Cardinality(S \cup T) = Cardinality(S) + Cardinality(T)
<1>1. PICK a, b : a = Cardinality(S) /\ b = Cardinality(T)
  OBVIOUS
<1>2. a \in Nat /\ b \in Nat
  BY <1>1, FS_CardinalityType
<1>3. IsFiniteSet(S \cup T) /\ Cardinality(S \cup T) = a + b - Cardinality(S \cap T)
  BY <1>1, FS_Union
<1>4. Cardinality(S \cap T) = 0
  BY FS_EmptySet
<1> QED
  BY <1>1, <1>2, <1>3, <1>4

LEMMA SharesCounted ==
    ASSUME NEW w, NEW u, NEW b, NEW l, NEW n \in Nat, Shared(w, u, b, l, n)
    PROVE  Cardinality(w) + Cardinality(u) + Cardinality(b) + Cardinality(l) = n
<1>1. IsFiniteSet(1..n) /\ Cardinality(1..n) = n
  BY FS_Interval
<1>2. w \subseteq 1..n /\ u \subseteq 1..n /\ b \subseteq 1..n /\ l \subseteq 1..n
  BY DEF Shared
<1>3. IsFiniteSet(w) /\ IsFiniteSet(u) /\ IsFiniteSet(b) /\ IsFiniteSet(l)
  BY <1>1, <1>2, FS_Subset
<1>4. /\ IsFiniteSet(w \cup u) /\ Cardinality(w \cup u) = Cardinality(w) + Cardinality(u)
      /\ Cardinality(w) \in Nat /\ Cardinality(u) \in Nat
  BY <1>3, TwoApart DEF Shared
<1>5. /\ IsFiniteSet(b \cup l) /\ Cardinality(b \cup l) = Cardinality(b) + Cardinality(l)
      /\ Cardinality(b) \in Nat /\ Cardinality(l) \in Nat
  BY <1>3, TwoApart DEF Shared
<1>6. (w \cup u) \cap (b \cup l) = {} /\ (w \cup u) \cup (b \cup l) = 1..n
  BY DEF Shared
<1>7. Cardinality(1..n) = Cardinality(w \cup u) + Cardinality(b \cup l)
  BY <1>4, <1>5, <1>6, TwoApart
<1> QED
  BY <1>1, <1>4, <1>5, <1>7

LEMMA LogKeepsAll == LogInv => Audit!EntriesAreKept
<1> SUFFICES ASSUME LogInv PROVE Audit!EntriesAreKept
  OBVIOUS
<1>1. /\ LogTyped /\ LinesApart /\ NoTwice(auditBuffer) /\ logged \in Nat /\ auditBuffer \in Seq(Nat)
      /\ streams \in Seq(LogFiles) /\ Shared(Audit!Written, Audit!UnderWay, Audit!Range(auditBuffer), lost, logged)
  BY DEF LogInv, LogTyped
<1>2. Audit!Written \cup Audit!UnderWay \cup Audit!Range(auditBuffer) \cup lost = 1..logged
  BY <1>1 DEF Shared
<1>3. Cardinality(Audit!Written) + Cardinality(Audit!UnderWay) + Len(auditBuffer) + Cardinality(lost) = logged
  <2>1. Cardinality(Audit!Range(auditBuffer)) = Len(auditBuffer)
    BY <1>1, BufferCounts
  <2>2. Cardinality(Audit!Written) + Cardinality(Audit!UnderWay) + Cardinality(Audit!Range(auditBuffer)) + Cardinality(lost) = logged
    BY <1>1, SharesCounted
  <2> QED
    BY <2>1, <2>2
<1>4. ASSUME NEW s \in DOMAIN streams, NEW t \in DOMAIN streams, NEW j \in DOMAIN streams[s].entries,
             NEW k \in DOMAIN streams[t].entries, streams[s].entries[j] = streams[t].entries[k]
      PROVE  s = t /\ j = k
  <2>1. s \in 1..Len(streams) /\ t \in 1..Len(streams)
    BY <1>1, FilesAre
  <2>2. streams[s].entries \in Seq(Nat) /\ streams[t].entries \in Seq(Nat)
    BY <1>1, <2>1, FilesAre
  <2>3. j \in 1..Len(streams[s].entries) /\ k \in 1..Len(streams[t].entries)
    BY <2>2, RangeOf
  <2> QED
    BY <1>1, <1>4, <2>1, <2>3 DEF LinesApart
<1> QED
  BY <1>2, <1>3, <1>4, SameCounts DEF Audit!EntriesAreKept

\* Every entry that addEntry took is in one place, and in one only, however the flushes,
\* the rotations and the disposal interleave (audit-logger.ts).
THEOREM LogKeepsEntries == ASSUME LogBounds PROVE Audit!Init /\ [][Audit!Next]_Audit!vars => []Audit!EntriesAreKept
<1>1. LogInv /\ [Audit!Next]_Audit!vars => LogInv'
  BY LogGoesOn
<1> QED
  BY <1>1, LogBegins, LogKeepsAll, PTL


-----------------------------------------------------------------------------
(* The loading of plugins (plugin-loader.ts). *)

\* A batch has a number of plugins, and there are finitely many services.
LoadBounds == Count \in Nat /\ IsFiniteSet(Services) /\ None \notin Loading!Plugins

ManifestsTyped == manifest \in [Loading!Plugins -> Loading!Manifest]

\* Of some plugins there is a first and a last.
LEMMA FirstAndLast ==
    ASSUME LoadBounds, NEW T \in SUBSET Loading!Plugins, T # {}
    PROVE  /\ Loading!Min(T) \in T /\ \A p \in T : Loading!Min(T) <= p
           /\ Loading!Max(T) \in T /\ \A p \in T : Loading!Max(T) >= p
<1>1. Count \in Nat /\ \A p \in T : p \in 1..Count
  BY DEF LoadBounds, Loading!Plugins
<1>2. \E n \in T : \A p \in T : n <= p
  <2>1. T \in SUBSET Nat
    BY <1>1
  <2> QED
    BY <2>1, LeastNumber
<1>3. \E n \in T : \A p \in T : n >= p
  <2> DEFINE U == {i \in Nat : \E p \in T : p + i = Count}
  <2>1. \A p \in T : Count - p \in Nat /\ p + (Count - p) = Count
    BY <1>1
  <2>2. U \in SUBSET Nat /\ U # {}
    BY <2>1
  <2>3. PICK i \in U : \A j \in U : i <= j
    BY <2>2, LeastNumber
  <2>4. PICK n \in T : n + i = Count
    OBVIOUS
  <2>5. ASSUME NEW p \in T PROVE n >= p
    <3>1. Count - p \in U
      BY <2>1
    <3>2. i <= Count - p /\ i \in Nat
      BY <2>3, <3>1
    <3> QED
      BY <1>1, <2>4, <3>2
  <2> QED
    BY <2>5
<1> QED
  BY <1>2, <1>3 DEF Loading!Min, Loading!Max

-----------------------------------------------------------------------------
(* What is counted for a plugin. *)

LEMMA PluginsCounted ==
    ASSUME LoadBounds
    PROVE  IsFiniteSet(Loading!Plugins) /\ Cardinality(Loading!Plugins) = Count /\ Loading!Plugins \subseteq Nat
<1>1. Count \in Nat /\ 1 \in Int /\ Count \in Int
  BY DEF LoadBounds
<1>2. IsFiniteSet(1..Count) /\ Cardinality(1..Count) = IF 1 > Count THEN 0 ELSE Count - 1 + 1
  BY <1>1, FS_Interval
<1>3. 1..Count \subseteq Nat
  BY <1>1
<1> QED
  BY <1>1, <1>2, <1>3 DEF Loading!Plugins

\* A plugin depends on plugins, and no fewer dependencies are counted than it has.
LEMMA EnoughCounted ==
    ASSUME LoadBounds, ManifestsTyped, NEW p \in Loading!Plugins
    PROVE  /\ Loading!DependencyGraph[p] \subseteq Loading!Plugins /\ IsFiniteSet(Loading!DependencyGraph[p])
           /\ Cardinality(Loading!DependencyGraph[p]) \in Nat /\ Loading!InDegree[p] \in Nat
           /\ Cardinality(Loading!DependencyGraph[p]) <= Loading!InDegree[p]
<1> DEFINE ps == {Loading!Provider(s) : s \in Loading!Provided(p)}
           who == [s \in Loading!Provided(p) |-> Loading!Provider(s)]
<1>1. manifest[p] \in Loading!Manifest
  BY DEF ManifestsTyped
<1>2. Loading!Provided(p) \subseteq Services /\ Loading!NamedDeps(p) \subseteq Loading!Plugins
  BY <1>1 DEF Loading!Manifest, Loading!Provided, Loading!NamedDeps
<1>3. IsFiniteSet(Loading!Provided(p)) /\ IsFiniteSet(Loading!NamedDeps(p))
  BY <1>2, PluginsCounted, FS_Subset DEF LoadBounds
<1>4. ASSUME NEW s \in Loading!Provided(p) PROVE Loading!Provider(s) \in Loading!Plugins
  <2> DEFINE them == {q \in Loading!Plugins : s \in manifest[q].services}
  <2>1. Loading!Provider(s) # None
    BY DEF Loading!Provided
  <2>2. them # {} /\ Loading!Provider(s) = Loading!Max(them)
    BY <2>1 DEF Loading!Provider
  <2>3. them \in SUBSET Loading!Plugins
    OBVIOUS
  <2> HIDE DEF them
  <2>4. Loading!Max(them) \in them
    BY <2>2, <2>3, FirstAndLast
  <2> QED
    BY <2>2, <2>3, <2>4
<1>5. who \in Surjection(Loading!Provided(p), ps)
  BY DEF Surjection
<1>6. IsFiniteSet(ps) /\ Cardinality(ps) <= Cardinality(Loading!Provided(p))
  BY <1>3, <1>5, FS_Surjection
<1>7. Loading!DependencyGraph[p] = ps \cup Loading!NamedDeps(p)
      /\ Loading!InDegree[p] = Cardinality(Loading!Provided(p)) + Cardinality(Loading!NamedDeps(p))
  BY SameCounts DEF Loading!DependencyGraph, Loading!InDegree
<1>8. ps \subseteq Loading!Plugins
  BY <1>4
<1> HIDE DEF ps, who
<1>9. /\ IsFiniteSet(ps \cup Loading!NamedDeps(p))
      /\ Cardinality(ps \cup Loading!NamedDeps(p)) =
           Cardinality(ps) + Cardinality(Loading!NamedDeps(p)) - Cardinality(ps \cap Loading!NamedDeps(p))
      /\ IsFiniteSet(ps \cap Loading!NamedDeps(p))
  BY <1>3, <1>6, FS_Union, FS_Intersection
<1>10. PICK a, b, c, d, e : /\ a = Cardinality(ps) /\ b = Cardinality(Loading!NamedDeps(p))
                            /\ c = Cardinality(ps \cap Loading!NamedDeps(p)) /\ d = Cardinality(Loading!Provided(p))
                            /\ e = Cardinality(ps \cup Loading!NamedDeps(p))
  OBVIOUS
<1>11. a \in Nat /\ b \in Nat /\ c \in Nat /\ d \in Nat /\ e \in Nat
  BY <1>3, <1>6, <1>9, <1>10, FS_CardinalityType
<1>12. e = a + b - c /\ a <= d
  BY <1>6, <1>9, <1>10
<1>13. e <= d + b /\ d + b \in Nat
  BY <1>11, <1>12
<1> QED
  BY <1>2, <1>7, <1>8, <1>9, <1>10, <1>11, <1>13

\* All that was counted for p is for plugins of P.
Free(p, P) ==
    /\ Loading!InDegree[p] = Cardinality(Loading!DependencyGraph[p])
    /\ Loading!DependencyGraph[p] \subseteq P

LEMMA FreeIs ==
    ASSUME LoadBounds, ManifestsTyped, NEW p \in Loading!Plugins, NEW P
    PROVE  /\ Cardinality(Loading!DependencyGraph[p] \cap P) \in Nat
           /\ Cardinality(Loading!DependencyGraph[p] \cap P) <= Loading!InDegree[p]
           /\ Free(p, P) <=> Loading!InDegree[p] = Cardinality(Loading!DependencyGraph[p] \cap P)
<1>1. PICK d, x : d = Loading!DependencyGraph[p] /\ x = d \cap P
  OBVIOUS
<1>2. IsFiniteSet(d) /\ Cardinality(d) \in Nat /\ Loading!InDegree[p] \in Nat /\ Cardinality(d) <= Loading!InDegree[p]
  BY <1>1, EnoughCounted
<1>3. x \in SUBSET d
  BY <1>1
<1>4. IsFiniteSet(x) /\ Cardinality(x) <= Cardinality(d) /\ (Cardinality(d) = Cardinality(x) => d = x)
  BY <1>2, <1>3, FS_Subset
<1>5. Cardinality(x) \in Nat
  BY <1>4, FS_CardinalityType
<1>6. PICK m, n : m = Cardinality(d) /\ n = Cardinality(x)
  OBVIOUS
<1>7. PICK i : i = Loading!InDegree[p]
  OBVIOUS
<1>8. m \in Nat /\ n \in Nat /\ i \in Nat /\ m <= i /\ n <= m
  BY <1>2, <1>4, <1>5, <1>6, <1>7
<1>9. n <= i /\ (i = n => m = n)
  BY <1>8
<1>10. d = x <=> d \subseteq P
  BY <1>1
<1>11. Free(p, P) <=> i = m /\ d \subseteq P
  BY <1>1, <1>6, <1>7 DEF Free
<1>12. Free(p, P) <=> i = n
  BY <1>4, <1>6, <1>9, <1>10, <1>11
<1> QED
  BY <1>1, <1>6, <1>7, <1>8, <1>9, <1>12

-----------------------------------------------------------------------------
(* topologicalSort. *)

OnceEach(s) == \A j, k \in 1..Len(s) : s[j] = s[k] => j = k
Earlier(s, j) == {s[i] : i \in 1..(j - 1)}
All(s) == {s[i] : i \in 1..Len(s)}

\* Each plugin is the first of those that wait for none but earlier ones.
LeastSorted(s) ==
    \A j \in 1..Len(s) :
        /\ Free(s[j], Earlier(s, j))
        /\ \A q \in Loading!Plugins \ Earlier(s, j) : Free(q, Earlier(s, j)) => s[j] <= q

KahnSound(s) ==
    /\ s.sorted \in Seq(Loading!Plugins) /\ OnceEach(s.sorted) /\ LeastSorted(s.sorted)
    /\ s.graph = [p \in Loading!Plugins |-> Loading!DependencyGraph[p] \ All(s.sorted)]
    /\ s.degree = [p \in Loading!Plugins |->
                     Loading!InDegree[p] - Cardinality(Loading!DependencyGraph[p] \cap All(s.sorted))]
    /\ s.queue = {p \in Loading!Plugins \ All(s.sorted) : Free(p, All(s.sorted))}

LEMMA KahnStarts == ASSUME LoadBounds, ManifestsTyped PROVE KahnSound(Loading!KahnStart)
<1>1. PICK s : s = Loading!KahnStart
  OBVIOUS
<1>2. /\ s.sorted = <<>> /\ s.graph = Loading!DependencyGraph /\ s.degree = Loading!InDegree
      /\ s.queue = {p \in Loading!Plugins : Loading!InDegree[p] = 0}
  BY <1>1 DEF Loading!KahnStart
<1>3. Len(<<>>) = 0 /\ <<>> \in Seq(Loading!Plugins) /\ 1..0 = {}
  BY EmptySeq
<1>4. All(<<>>) = {} /\ OnceEach(<<>>) /\ LeastSorted(<<>>)
  BY <1>3 DEF All, OnceEach, LeastSorted
<1>5. s.graph = [p \in Loading!Plugins |-> Loading!DependencyGraph[p] \ {}]
  BY <1>2 DEF Loading!DependencyGraph
<1>6. \A p \in Loading!Plugins : Cardinality(Loading!DependencyGraph[p] \cap {}) = 0
  BY FS_EmptySet
<1>7. \A p \in Loading!Plugins : Loading!InDegree[p] \in Nat
  BY EnoughCounted
<1>8. s.degree = [p \in Loading!Plugins |-> Loading!InDegree[p] - Cardinality(Loading!DependencyGraph[p] \cap {})]
  <2>1. Loading!InDegree = [p \in Loading!Plugins |-> Loading!InDegree[p]]
    BY DEF Loading!InDegree
  <2>2. \A p \in Loading!Plugins : Loading!InDegree[p] - Cardinality(Loading!DependencyGraph[p] \cap {}) = Loading!InDegree[p]
    BY <1>6, <1>7
  <2> QED
    BY <1>2, <2>1, <2>2
<1>9. \A p \in Loading!Plugins : Free(p, {}) <=> Loading!InDegree[p] = 0
  BY <1>6, FreeIs
<1>10. s.queue = {p \in Loading!Plugins \ {} : Free(p, {})}
  BY <1>2, <1>9
<1>11. All(s.sorted) = {} /\ s.sorted \in Seq(Loading!Plugins) /\ OnceEach(s.sorted) /\ LeastSorted(s.sorted)
  BY <1>2, <1>3, <1>4
<1>12. /\ s.graph = [p \in Loading!Plugins |-> Loading!DependencyGraph[p] \ All(s.sorted)]
       /\ s.degree = [p \in Loading!Plugins |->
                        Loading!InDegree[p] - Cardinality(Loading!DependencyGraph[p] \cap All(s.sorted))]
       /\ s.queue = {p \in Loading!Plugins \ All(s.sorted) : Free(p, All(s.sorted))}
  BY <1>5, <1>8, <1>10, <1>11, Zenon
<1> QED
  BY <1>1, <1>11, <1>12 DEF KahnSound

\* A sequence with one more at its end.
LEMMA OnePluginMore ==
    ASSUME NEW s \in Seq(Loading!Plugins), NEW c \in Loading!Plugins, NEW n \in Nat, n = Len(s)
    PROVE  /\ Append(s, c) \in Seq(Loading!Plugins) /\ Len(Append(s, c)) = n + 1
           /\ Append(s, c)[n + 1] = c /\ \A k \in 1..n : Append(s, c)[k] = s[k]
           /\ All(Append(s, c)) = All(s) \cup {c}
           /\ Earlier(Append(s, c), n + 1) = All(s)
           /\ \A k \in 1..n : Earlier(Append(s, c), k) = Earlier(s, k)
           /\ OnceEach(s) /\ c \notin All(s) => OnceEach(Append(s, c))
<1>1. PICK t : t = Append(s, c)
  OBVIOUS
<1>2. t \in Seq(Loading!Plugins) /\ Len(t) = n + 1 /\ t[n + 1] = c /\ \A k \in 1..n : t[k] = s[k]
  BY <1>1, AppendProperties
<1>3. /\ \A k \in 1..(n + 1) : k \in 1..n \/ k = n + 1
      /\ \A k \in 1..n : k \in 1..(n + 1) /\ k # n + 1
      /\ n + 1 \in 1..(n + 1) /\ (n + 1) - 1 = n
  OBVIOUS
<1>4. All(t) = All(s) \cup {c}
  <2>1. ASSUME NEW x \in All(t) PROVE x \in All(s) \cup {c}
    BY <1>2, <1>3 DEF All
  <2>2. ASSUME NEW x \in All(s) PROVE x \in All(t)
    BY <1>2, <1>3 DEF All
  <2>3. c \in All(t)
    BY <1>2, <1>3 DEF All
  <2> QED
    BY <2>1, <2>2, <2>3
<1>5. Earlier(t, n + 1) = All(s)
  BY <1>2, <1>3 DEF All, Earlier
<1>6. ASSUME NEW k \in 1..n PROVE Earlier(t, k) = Earlier(s, k)
  <2>1. \A i \in 1..(k - 1) : i \in 1..n
    OBVIOUS
  <2> QED
    BY <1>2, <2>1 DEF Earlier
<1>7. ASSUME OnceEach(s), c \notin All(s) PROVE OnceEach(t)
  <2>1. \A k \in 1..n : s[k] # c
    BY <1>7 DEF All
  <2>2. ASSUME NEW j \in 1..(n + 1), NEW k \in 1..(n + 1), t[j] = t[k] PROVE j = k
    BY <1>2, <1>3, <1>7, <2>1, <2>2 DEF OnceEach
  <2> QED
    BY <1>2, <2>2 DEF OnceEach
<1> QED
  BY <1>1, <1>2, <1>4, <1>5, <1>6, <1>7

LEMMA OneMoreLeast ==
    ASSUME NEW s \in Seq(Loading!Plugins), NEW c \in Loading!Plugins, LeastSorted(s), Free(c, All(s)),
           \A q \in Loading!Plugins \ All(s) : Free(q, All(s)) => c <= q
    PROVE  LeastSorted(Append(s, c))
<1>1. PICK n \in Nat : n = Len(s)
  BY LenProperties
<1>2. PICK t : t = Append(s, c)
  OBVIOUS
<1>3. /\ Len(t) = n + 1 /\ t[n + 1] = c /\ \A k \in 1..n : t[k] = s[k]
      /\ Earlier(t, n + 1) = All(s) /\ \A k \in 1..n : Earlier(t, k) = Earlier(s, k)
  BY <1>1, <1>2, OnePluginMore
<1>4. ASSUME NEW j \in 1..(n + 1)
      PROVE  /\ Free(t[j], Earlier(t, j))
             /\ \A q \in Loading!Plugins \ Earlier(t, j) : Free(q, Earlier(t, j)) => t[j] <= q
  <2>1. j \in 1..n \/ j = n + 1
    OBVIOUS
  <2>2. CASE j \in 1..n
    BY <1>1, <1>3, <2>2 DEF LeastSorted
  <2>3. CASE j = n + 1
    BY <1>3, <2>3
  <2> QED
    BY <2>1, <2>2, <2>3
<1> QED
  BY <1>2, <1>3, <1>4 DEF LeastSorted

\* What is sorted waits for nothing that is not.
LEMMA SortedAreFree ==
    ASSUME NEW s \in Seq(Loading!Plugins), LeastSorted(s), NEW p \in All(s)
    PROVE  p \in Loading!Plugins /\ Free(p, All(s))
<1>1. PICK n \in Nat : n = Len(s)
  BY LenProperties
<1>2. PICK j \in 1..n : p = s[j]
  BY <1>1 DEF All
<1>3. Free(p, Earlier(s, j)) /\ p \in Loading!Plugins
  BY <1>1, <1>2, ElementOfSeq DEF LeastSorted
<1>4. Earlier(s, j) \subseteq All(s)
  <2>1. \A i \in 1..(j - 1) : i \in 1..n
    OBVIOUS
  <2> QED
    BY <1>1, <2>1 DEF Earlier, All
<1> QED
  BY <1>3, <1>4 DEF Free

\* One more placed counts for those that depend on it.
LEMMA OneMoreCounted ==
    ASSUME LoadBounds, ManifestsTyped, NEW p \in Loading!Plugins, NEW P, NEW c, c \notin P
    PROVE  Loading!InDegree[p] - Cardinality(Loading!DependencyGraph[p] \cap (P \cup {c})) =
             (IF c \in Loading!DependencyGraph[p]
              THEN Loading!InDegree[p] - Cardinality(Loading!DependencyGraph[p] \cap P) - 1
              ELSE Loading!InDegree[p] - Cardinality(Loading!DependencyGraph[p] \cap P))
<1>1. PICK d : d = Loading!DependencyGraph[p]
  OBVIOUS
<1>2. IsFiniteSet(d) /\ Loading!InDegree[p] \in Nat /\ Cardinality(d \cap P) \in Nat
  BY <1>1, EnoughCounted, FreeIs
<1>3. CASE c \notin d
  <2>1. d \cap (P \cup {c}) = d \cap P
    BY <1>3
  <2> QED
    BY <1>1, <1>3, <2>1
<1>4. CASE c \in d
  <2>1. d \cap (P \cup {c}) = (d \cap P) \cup {c} /\ c \notin d \cap P
    BY <1>4
  <2>2. IsFiniteSet(d \cap P)
    BY <1>2, FS_Intersection
  <2>3. Cardinality(d \cap (P \cup {c})) = Cardinality(d \cap P) + 1
    BY <2>1, <2>2, FS_AddElement
  <2> QED
    BY <1>1, <1>2, <1>4, <2>3
<1> QED
  BY <1>3, <1>4

LEMMA KahnStepsOn ==
    ASSUME LoadBounds, ManifestsTyped, NEW s, KahnSound(s)
    PROVE  KahnSound(Loading!KahnStep(s))
<1>1. CASE s.queue = {}
  BY <1>1 DEF Loading!KahnStep
<1>2. CASE s.queue # {}
  <2>1. PICK q, P : q = s.sorted /\ P = All(q)
    OBVIOUS
  <2>2. PICK c : c = Loading!First(s.queue)
    OBVIOUS
  <2>3. /\ q \in Seq(Loading!Plugins) /\ OnceEach(q) /\ LeastSorted(q)
        /\ s.graph = [p \in Loading!Plugins |-> Loading!DependencyGraph[p] \ P]
        /\ s.degree = [p \in Loading!Plugins |-> Loading!InDegree[p] - Cardinality(Loading!DependencyGraph[p] \cap P)]
        /\ s.queue = {p \in Loading!Plugins \ P : Free(p, P)}
    BY <2>1 DEF KahnSound
  <2>4. c \in s.queue /\ \A p \in s.queue : c <= p
    <3>1. s.queue \in SUBSET Loading!Plugins
      BY <2>3
    <3> QED
      BY <1>2, <2>2, <3>1, FirstAndLast DEF Loading!First
  <2>5. c \in Loading!Plugins /\ c \notin P /\ Free(c, P)
    BY <2>3, <2>4
  <2>6. PICK t, Q : t = Append(q, c) /\ Q = P \cup {c}
    OBVIOUS
  <2>7. t \in Seq(Loading!Plugins) /\ OnceEach(t) /\ All(t) = Q /\ LeastSorted(t)
    <3>1. PICK n \in Nat : n = Len(q)
      BY <2>3, LenProperties
    <3>2. t \in Seq(Loading!Plugins) /\ OnceEach(t) /\ All(t) = Q
      BY <2>1, <2>3, <2>5, <2>6, <3>1, OnePluginMore
    <3>3. \A p \in Loading!Plugins \ P : Free(p, P) => c <= p
      BY <2>3, <2>4
    <3>4. LeastSorted(t)
      BY <2>1, <2>3, <2>5, <2>6, <3>3, OneMoreLeast
    <3> QED
      BY <3>2, <3>4
  <2>8. PICK theirs : theirs = {p \in Loading!Plugins : c \in s.graph[p]}
    OBVIOUS
  <2>9. \A p \in Loading!Plugins : p \in theirs <=> c \in Loading!DependencyGraph[p]
    BY <2>3, <2>5, <2>8
  <2>10. PICK degree : degree = [p \in Loading!Plugins |->
                                   IF p \in theirs THEN s.degree[p] - 1 ELSE s.degree[p]]
    OBVIOUS
  <2>11. \A p \in Loading!Plugins : degree[p] = Loading!InDegree[p] - Cardinality(Loading!DependencyGraph[p] \cap Q)
    <3>1. ASSUME NEW p \in Loading!Plugins
          PROVE  degree[p] = Loading!InDegree[p] - Cardinality(Loading!DependencyGraph[p] \cap Q)
      <4>1. s.degree[p] = Loading!InDegree[p] - Cardinality(Loading!DependencyGraph[p] \cap P)
        BY <2>3
      <4>2. Loading!InDegree[p] - Cardinality(Loading!DependencyGraph[p] \cap Q) =
             (IF c \in Loading!DependencyGraph[p]
              THEN Loading!InDegree[p] - Cardinality(Loading!DependencyGraph[p] \cap P) - 1
              ELSE Loading!InDegree[p] - Cardinality(Loading!DependencyGraph[p] \cap P))
        BY <2>5, <2>6, OneMoreCounted
      <4> QED
        BY <2>9, <2>10, <4>1, <4>2
    <3> QED
      BY <3>1
  <2>12. \A p \in Loading!Plugins : degree[p] = 0 <=> Free(p, Q)
    <3>1. ASSUME NEW p \in Loading!Plugins PROVE degree[p] = 0 <=> Free(p, Q)
      <4>1. PICK i, x : i = Loading!InDegree[p] /\ x = Cardinality(Loading!DependencyGraph[p] \cap Q)
        OBVIOUS
      <4>2. x \in Nat /\ i \in Nat /\ (Free(p, Q) <=> i = x)
        BY <4>1, FreeIs, EnoughCounted
      <4>3. degree[p] = i - x
        BY <2>11, <4>1
      <4> QED
        BY <4>2, <4>3
    <3> QED
      BY <3>1
  <2>13. PICK r : r = Loading!KahnStep(s)
    OBVIOUS
  <2>14. /\ r.queue = (s.queue \ {c}) \cup {p \in theirs : degree[p] = 0}
         /\ r.sorted = t
         /\ r.graph = [p \in Loading!Plugins |-> s.graph[p] \ {c}]
         /\ r.degree = degree
    BY <1>2, <2>1, <2>2, <2>6, <2>8, <2>10, <2>13 DEF Loading!KahnStep
  <2>15. r.graph = [p \in Loading!Plugins |-> Loading!DependencyGraph[p] \ Q]
    BY <2>3, <2>6, <2>14
  <2>16. r.degree = [p \in Loading!Plugins |-> Loading!InDegree[p] - Cardinality(Loading!DependencyGraph[p] \cap Q)]
    BY <2>10, <2>11, <2>14
  \* Those that wait for nothing else once c is placed.
  <2>17. ASSUME NEW p \in Loading!Plugins PROVE p \in r.queue <=> p \notin Q /\ Free(p, Q)
    <3>1. p \in P => Free(p, P) /\ Loading!DependencyGraph[p] \subseteq P
      BY <2>1, <2>3, SortedAreFree DEF Free
    <3>2. Loading!DependencyGraph[c] \subseteq P
      BY <2>5 DEF Free
    <3>3. CASE c \in Loading!DependencyGraph[p]
      <4>1. p \notin P /\ p # c /\ ~Free(p, P)
        BY <2>5, <3>1, <3>2, <3>3 DEF Free
      <4>2. p \in theirs /\ p \notin s.queue
        BY <2>3, <2>9, <3>3, <4>1
      <4> QED
        BY <2>6, <2>12, <2>14, <4>1, <4>2
    <3>4. CASE c \notin Loading!DependencyGraph[p]
      <4>1. Free(p, Q) <=> Free(p, P)
        BY <2>6, <3>4 DEF Free
      <4>2. p \notin theirs
        BY <2>9, <3>4
      <4>3. p \in r.queue <=> p \in s.queue /\ p # c
        BY <2>14, <4>2
      <4>4. p \in s.queue <=> p \notin P /\ Free(p, P)
        BY <2>3
      <4> QED
        BY <2>6, <4>1, <4>3, <4>4
    <3> QED
      BY <3>3, <3>4
  <2>18. r.queue \subseteq Loading!Plugins
    BY <2>3, <2>8, <2>14
  <2>19. r.queue = {p \in Loading!Plugins \ Q : Free(p, Q)}
    BY <2>17, <2>18
  <2> QED
    BY <2>7, <2>13, <2>14, <2>15, <2>16, <2>19 DEF KahnSound
<1> QED
  BY <1>1, <1>2

\* The recursive function has the values that its definition gives.
LEMMA KahnUnfolds ==
    ASSUME LoadBounds
    PROVE  /\ Loading!KahnAfter[0] = Loading!KahnStart
           /\ \A k \in 1..Count : Loading!KahnAfter[k] = Loading!KahnStep(Loading!KahnAfter[k - 1])
<1> DEFINE Upto(g, n) == g = [k \in 0..n |-> IF k = 0 THEN Loading!KahnStart ELSE Loading!KahnStep(g[k - 1])]
           none == {n \in Nat : ~ \E g : Upto(g, n)}
<1>1. none = {}
  <2>1. SUFFICES ASSUME none # {} PROVE FALSE
    OBVIOUS
  <2>2. none \in SUBSET Nat
    OBVIOUS
  <2>3. PICK n \in none : \A m \in none : n <= m
    <3> HIDE DEF none
    <3> QED
      BY <2>1, <2>2, LeastNumber
  <2>4. n \in Nat
    OBVIOUS
  <2>5. CASE n = 0
    <3>1. Upto([k \in 0..0 |-> Loading!KahnStart], 0)
      OBVIOUS
    <3> QED
      BY <2>5, <3>1
  <2>6. CASE n # 0
    <3>1. n - 1 \in Nat /\ ~(n <= n - 1)
      BY <2>4, <2>6
    <3>2. PICK g : Upto(g, n - 1)
      BY <2>3, <3>1
    <3>3. PICK h : h = [k \in 0..n |-> IF k = n THEN Loading!KahnStep(g[n - 1]) ELSE g[k]]
      OBVIOUS
    <3>4. ASSUME NEW k \in 0..n
          PROVE  h[k] = IF k = 0 THEN Loading!KahnStart ELSE Loading!KahnStep(h[k - 1])
      <4>1. CASE k = n
        <5>1. h[k] = Loading!KahnStep(g[n - 1])
          BY <3>3, <4>1
        <5>2. n - 1 \in 0..n /\ n - 1 # n
          BY <2>4, <2>6
        <5>3. h[n - 1] = g[n - 1]
          BY <3>3, <5>2
        <5> QED
          BY <2>6, <4>1, <5>1, <5>3
      <4>2. CASE k # n
        <5>1. k \in 0..(n - 1) /\ k \in 0..n
          BY <2>4, <4>2
        <5>2. h[k] = g[k]
          BY <3>3, <4>2
        <5>3. g[k] = IF k = 0 THEN Loading!KahnStart ELSE Loading!KahnStep(g[k - 1])
          BY <3>2, <5>1
        <5>4. k # 0 => k - 1 \in 0..n /\ k - 1 # n
          BY <2>4, <4>2
        <5>5. k # 0 => h[k - 1] = g[k - 1]
          BY <3>3, <5>4
        <5> QED
          BY <5>2, <5>3, <5>5
      <4> QED
        BY <4>1, <4>2
    <3>5. h = [k \in 0..n |-> IF k = 0 THEN Loading!KahnStart ELSE Loading!KahnStep(h[k - 1])]
      <4>1. h = [k \in 0..n |-> h[k]]
        BY <3>3
      <4> QED
        BY <3>4, <4>1
    <3> QED
      BY <3>5
  <2> QED
    BY <2>5, <2>6
<1>2. \E g : g = [k \in 0..Count |-> IF k = 0 THEN Loading!KahnStart ELSE Loading!KahnStep(g[k - 1])]
  BY <1>1 DEF LoadBounds
<1>3. Loading!KahnAfter = [k \in 0..Count |-> IF k = 0 THEN Loading!KahnStart ELSE Loading!KahnStep(Loading!KahnAfter[k - 1])]
  BY <1>2 DEF Loading!KahnAfter
<1>4. 0 \in 0..Count /\ \A k \in 1..Count : k \in 0..Count /\ k # 0
  BY DEF LoadBounds
<1> QED
  BY <1>3, <1>4

\* Each pass sorts a plugin, until none is queued.
KahnGoesOn(s, k) == s.queue = {} \/ Len(s.sorted) = k

LEMMA KahnPasses ==
    ASSUME NEW k \in Nat, NEW s, KahnGoesOn(s, k), s.sorted \in Seq(Loading!Plugins)
    PROVE  KahnGoesOn(Loading!KahnStep(s), k + 1)
<1>1. CASE s.queue = {}
  BY <1>1 DEF Loading!KahnStep, KahnGoesOn
<1>2. CASE s.queue # {}
  <2>1. PICK c : c = Loading!First(s.queue)
    OBVIOUS
  <2>2. Loading!KahnStep(s).sorted = Append(s.sorted, c)
    BY <1>2, <2>1 DEF Loading!KahnStep
  <2>3. PICK q : q = s.sorted
    OBVIOUS
  <2>4. q \in Seq(Loading!Plugins \cup {c}) /\ Len(q) = k
    <3>1. Loading!Plugins \subseteq Loading!Plugins \cup {c}
      OBVIOUS
    <3>2. q \in Seq(Loading!Plugins \cup {c})
      BY <2>3, <3>1, SeqMonotonic
    <3> QED
      BY <1>2, <2>3, <3>2 DEF KahnGoesOn
  <2>5. Len(Append(q, c)) = k + 1
    BY <2>4, AppendProperties
  <2> QED
    BY <2>2, <2>3, <2>5 DEF KahnGoesOn
<1> QED
  BY <1>1, <1>2

LEMMA KahnIsSound ==
    ASSUME LoadBounds, ManifestsTyped
    PROVE  /\ Loading!Kahn \in Seq(Loading!Plugins) /\ OnceEach(Loading!Kahn) /\ LeastSorted(Loading!Kahn)
           /\ Len(Loading!Kahn) < Count => \A p \in Loading!Plugins \ All(Loading!Kahn) : ~Free(p, All(Loading!Kahn))
<1> DEFINE bad == {k \in 0..Count : ~(KahnSound(Loading!KahnAfter[k]) /\ KahnGoesOn(Loading!KahnAfter[k], k))}
<1>1. Count \in Nat
  BY DEF LoadBounds
<1>2. bad = {}
  <2>1. SUFFICES ASSUME bad # {} PROVE FALSE
    OBVIOUS
  <2>2. bad \in SUBSET Nat
    BY <1>1
  <2>3. PICK k \in bad : \A m \in bad : k <= m
    <3> HIDE DEF bad
    <3> QED
      BY <2>1, <2>2, LeastNumber
  <2>4. CASE k = 0
    <3>1. KahnGoesOn(Loading!KahnStart, 0)
      BY DEF Loading!KahnStart, KahnGoesOn
    <3> QED
      BY <2>4, <3>1, KahnUnfolds, KahnStarts
  <2>5. CASE k # 0
    <3>1. k \in 1..Count /\ k - 1 \in 0..Count /\ ~(k <= k - 1) /\ (k - 1) + 1 = k /\ k - 1 \in Nat
      BY <1>1, <2>5
    <3>2. KahnSound(Loading!KahnAfter[k - 1]) /\ KahnGoesOn(Loading!KahnAfter[k - 1], k - 1)
      BY <2>3, <3>1
    <3>3. Loading!KahnAfter[k] = Loading!KahnStep(Loading!KahnAfter[k - 1])
      BY <3>1, KahnUnfolds
    <3>4. KahnSound(Loading!KahnAfter[k])
      BY <3>2, <3>3, KahnStepsOn
    <3>5. Loading!KahnAfter[k - 1].sorted \in Seq(Loading!Plugins)
      BY <3>2 DEF KahnSound
    <3>6. KahnGoesOn(Loading!KahnAfter[k], (k - 1) + 1)
      BY <3>1, <3>2, <3>3, <3>5, KahnPasses
    <3> QED
      BY <3>1, <3>4, <3>6
  <2> QED
    BY <2>4, <2>5
<1>3. Count \in 0..Count
  BY <1>1
<1>4. KahnSound(Loading!KahnAfter[Count]) /\ KahnGoesOn(Loading!KahnAfter[Count], Count)
  BY <1>2, <1>3
<1>5. PICK s : s = Loading!KahnAfter[Count]
  OBVIOUS
<1>6. Loading!Kahn = s.sorted /\ KahnSound(s) /\ KahnGoesOn(s, Count)
  BY <1>4, <1>5 DEF Loading!Kahn
<1>7. ASSUME Len(Loading!Kahn) < Count, NEW p \in Loading!Plugins \ All(Loading!Kahn) PROVE ~Free(p, All(Loading!Kahn))
  <2>1. s.queue = {}
    BY <1>1, <1>6, <1>7 DEF KahnGoesOn
  <2>2. s.queue = {q \in Loading!Plugins \ All(Loading!Kahn) : Free(q, All(Loading!Kahn))}
    BY <1>6 DEF KahnSound
  <2> QED
    BY <2>1, <2>2
<1> QED
  BY <1>6, <1>7 DEF KahnSound

\* Why a batch is refused.
Reason == Loading!Cyclic \/ \E p \in Loading!Plugins : Loading!InDegree[p] # Cardinality(Loading!DependencyGraph[p])

LEMMA RefusalHasReason == ASSUME LoadBounds, ManifestsTyped, Len(Loading!Kahn) < Count PROVE Reason
<1>1. PICK t : t = Loading!Kahn
  OBVIOUS
<1>2. /\ t \in Seq(Loading!Plugins) /\ \A p \in Loading!Plugins \ All(t) : ~Free(p, All(t))
      /\ Len(t) < Count
  BY <1>1, KahnIsSound
<1>3. PICK rest : rest = Loading!Plugins \ All(t)
  OBVIOUS
<1>4. rest # {}
  <2>1. SUFFICES ASSUME rest = {} PROVE FALSE
    OBVIOUS
  <2>2. PICK n \in Nat : n = Len(t) /\ t \in [1..n -> Loading!Plugins]
    BY <1>2, LenProperties
  <2>3. \A p \in Loading!Plugins : \E i \in 1..n : t[i] = p
    BY <1>3, <2>1, <2>2 DEF All
  <2>4. t \in Surjection(1..n, Loading!Plugins)
    BY <2>2, <2>3 DEF Surjection
  <2>5. IsFiniteSet(1..n) /\ Cardinality(1..n) = n
    <3>1. 1 \in Int /\ n \in Int
      OBVIOUS
    <3>2. IsFiniteSet(1..n) /\ Cardinality(1..n) = IF 1 > n THEN 0 ELSE n - 1 + 1
      BY <3>1, FS_Interval
    <3> QED
      BY <2>2, <3>2
  <2>6. Count <= n
    BY <2>4, <2>5, PluginsCounted, FS_Surjection
  <2> QED
    BY <1>2, <2>2, <2>6 DEF LoadBounds
<1>5. CASE \E p \in Loading!Plugins : Loading!InDegree[p] # Cardinality(Loading!DependencyGraph[p])
  BY <1>5 DEF Reason
<1>6. CASE \A p \in Loading!Plugins : Loading!InDegree[p] = Cardinality(Loading!DependencyGraph[p])
  <2>1. ASSUME NEW p \in rest PROVE Loading!DependencyGraph[p] \cap rest # {}
    <3>1. p \in Loading!Plugins /\ ~Free(p, All(t))
      BY <1>2, <1>3
    <3>2. ~(Loading!DependencyGraph[p] \subseteq All(t))
      BY <1>6, <3>1 DEF Free
    <3> QED
      BY <1>3, <3>1, <3>2, EnoughCounted
  <2>2. rest \in SUBSET Loading!Plugins
    BY <1>3
  <2> QED
    BY <1>4, <2>1, <2>2 DEF Reason, Loading!Cyclic
<1> QED
  BY <1>5, <1>6

\* Plugins that are all apart and as many as there are, are all.
LEMMA AllPlaced ==
    ASSUME LoadBounds, NEW s \in [Loading!Plugins -> Loading!Plugins], \A i, j \in Loading!Plugins : i # j => s[i] # s[j]
    PROVE  \A p \in Loading!Plugins : \E i \in Loading!Plugins : s[i] = p
<1>1. s \in Injection(Loading!Plugins, Loading!Plugins)
  BY DEF Injection, IsInjective
<1>2. s \in Surjection(Loading!Plugins, Loading!Plugins)
  BY <1>1, PluginsCounted, FS_Injection
<1> QED
  BY <1>2 DEF Surjection

LEMMA SortedAreNoMore ==
    ASSUME LoadBounds, NEW s \in Seq(Loading!Plugins), OnceEach(s)
    PROVE  /\ Len(s) \in Nat /\ Len(s) <= Count
           /\ Len(s) = Count => s \in [Loading!Plugins -> Loading!Plugins] /\ \A i, j \in Loading!Plugins : i # j => s[i] # s[j]
<1>1. PICK n \in Nat : n = Len(s) /\ DOMAIN s = 1..n /\ s \in [1..n -> Loading!Plugins]
  BY LenProperties
<1>2. \A i, j \in 1..n : s[i] = s[j] => i = j
  BY <1>1 DEF OnceEach
<1>3. s \in Injection(1..n, Loading!Plugins)
  BY <1>1, <1>2 DEF Injection, IsInjective
<1>4. Cardinality(1..n) = n
  <2>1. 1 \in Int /\ n \in Int
    OBVIOUS
  <2>2. Cardinality(1..n) = IF 1 > n THEN 0 ELSE n - 1 + 1
    BY <2>1, FS_Interval
  <2> QED
    BY <1>1, <2>2
<1>5. n <= Count
  BY <1>3, <1>4, PluginsCounted, FS_Injection
<1>6. n = Count => Loading!Plugins = 1..n
  BY DEF Loading!Plugins
<1> QED
  BY <1>1, <1>2, <1>5, <1>6

LeastOrder(t) ==
    /\ t \in Loading!Extensions
    /\ \A s \in Loading!Extensions : s = t \/ Loading!Before(t, s)

LEMMA SortIsLeast ==
    ASSUME LoadBounds, ManifestsTyped, NEW t \in Seq(Loading!Plugins), OnceEach(t), LeastSorted(t),
           ~(Len(t) < Count)
    PROVE  LeastOrder(t)
<1>1. Count \in Nat /\ Loading!Plugins = 1..Count
  BY DEF LoadBounds, Loading!Plugins
<1>2. Len(t) = Count
  BY <1>1, SortedAreNoMore
<1>3. t \in [Loading!Plugins -> Loading!Plugins] /\ \A i, j \in Loading!Plugins : i # j => t[i] # t[j]
  BY <1>2, SortedAreNoMore
<1>4. \A j \in Loading!Plugins : \A i \in 1..(j - 1) : i \in Loading!Plugins /\ i < j
  BY <1>1
<1>5. ASSUME NEW j \in Loading!Plugins
      PROVE  /\ Free(t[j], Earlier(t, j))
             /\ \A q \in Loading!Plugins \ Earlier(t, j) : Free(q, Earlier(t, j)) => t[j] <= q
  BY <1>1, <1>2 DEF LeastSorted
<1>6. \A p \in Loading!Plugins : Loading!InDegree[p] = Cardinality(Loading!DependencyGraph[p])
  <2>1. ASSUME NEW p \in Loading!Plugins PROVE Loading!InDegree[p] = Cardinality(Loading!DependencyGraph[p])
    <3>1. PICK j \in Loading!Plugins : t[j] = p
      BY <1>3, AllPlaced
    <3> QED
      BY <1>5, <3>1 DEF Free
  <2> QED
    BY <2>1
<1>7. t \in Loading!Extensions
  <2>1. ASSUME NEW i \in Loading!Plugins, NEW j \in Loading!Plugins, t[j] \in Loading!DependencyGraph[t[i]] PROVE j < i
    <3>1. t[j] \in Earlier(t, i)
      BY <1>5, <2>1 DEF Free
    <3>2. PICK k \in 1..(i - 1) : t[j] = t[k]
      BY <3>1 DEF Earlier
    <3>3. k \in Loading!Plugins /\ k < i
      BY <1>4, <3>2
    <3>4. j = k
      BY <1>3, <3>2, <3>3
    <3> QED
      BY <3>3, <3>4
  <2> QED
    BY <1>3, <2>1 DEF Loading!Extensions
<1>8. ASSUME NEW s \in Loading!Extensions, s # t PROVE Loading!Before(t, s)
  <2>1. /\ s \in [Loading!Plugins -> Loading!Plugins] /\ \A i, j \in Loading!Plugins : i # j => s[i] # s[j]
        /\ \A i, j \in Loading!Plugins : s[j] \in Loading!DependencyGraph[s[i]] => j < i
    BY DEF Loading!Extensions
  <2>2. PICK apart : apart = {i \in Loading!Plugins : s[i] # t[i]}
    OBVIOUS
  <2>3. apart # {}
    BY <1>3, <1>8, <2>1, <2>2
  <2>4. PICK k \in apart : \A i \in apart : k <= i
    <3>1. apart \in SUBSET Nat
      BY <1>1, <2>2
    <3> QED
      BY <2>3, <3>1, LeastNumber
  <2>5. k \in Loading!Plugins /\ s[k] # t[k] /\ \A i \in 1..(k - 1) : s[i] = t[i]
    <3>1. k \in Loading!Plugins /\ s[k] # t[k]
      BY <2>2
    <3>2. ASSUME NEW i \in 1..(k - 1), s[i] # t[i] PROVE FALSE
      <4>1. i \in Loading!Plugins /\ i < k /\ i \in Nat /\ k \in Nat
        BY <1>1, <1>4, <3>1
      <4>2. k <= i
        BY <2>2, <2>4, <3>2, <4>1
      <4> QED
        BY <4>1, <4>2
    <3> QED
      BY <3>1, <3>2
  <2>6. s[k] \notin Earlier(t, k)
    <3>1. ASSUME NEW i \in 1..(k - 1), s[k] = t[i] PROVE FALSE
      <4>1. i \in Loading!Plugins /\ i < k /\ i \in Nat /\ k \in Nat
        BY <1>1, <1>4, <2>5
      <4>2. s[i] = s[k]
        BY <2>5, <3>1
      <4> QED
        BY <2>1, <2>5, <4>1, <4>2
    <3> QED
      BY <3>1 DEF Earlier
  <2>7. Loading!DependencyGraph[s[k]] \subseteq Earlier(t, k)
    <3>1. ASSUME NEW d \in Loading!DependencyGraph[s[k]] PROVE d \in Earlier(t, k)
      <4>1. s[k] \in Loading!Plugins
        BY <2>1, <2>5
      <4>2. d \in Loading!Plugins
        BY <4>1, EnoughCounted
      <4>3. PICK j \in Loading!Plugins : s[j] = d
        BY <2>1, <4>2, AllPlaced
      <4>4. j < k /\ j \in Nat /\ k \in Nat /\ 1 <= j
        BY <1>1, <2>1, <2>5, <4>3
      <4>5. j \in 1..(k - 1)
        BY <4>4
      <4> QED
        BY <2>5, <4>3, <4>5 DEF Earlier
    <3> QED
      BY <3>1
  <2>8. Free(s[k], Earlier(t, k)) /\ s[k] \in Loading!Plugins
    BY <1>6, <2>1, <2>5, <2>7 DEF Free
  <2>9. t[k] <= s[k]
    BY <1>5, <2>5, <2>6, <2>8
  <2>10. t[k] < s[k]
    <3>1. t[k] \in Nat /\ s[k] \in Nat
      BY <1>1, <1>3, <2>5, <2>8
    <3> QED
      BY <2>5, <2>9, <3>1
  <2> QED
    BY <2>5, <2>10 DEF Loading!Before
<1> QED
  BY <1>7, <1>8 DEF LeastOrder

-----------------------------------------------------------------------------
(* The steps. *)

Phases == {"sorting", "refused", "loading", "failed", "starting", "running",
           "stopping", "halted", "stopped"}

LoadTyped ==
    /\ ManifestsTyped /\ phase \in Phases
    /\ tool \in Loading!Plugins \cup {None} /\ guide \in Loading!Plugins \cup {None}
    /\ contextManager \in Loading!Plugins \cup {None}
    /\ toLoad \in Seq(Loading!Plugins) /\ order \in Seq(Loading!Plugins) /\ loaded \in Seq(Loading!Plugins)
    /\ listeners \in Seq(Loading!Plugins) /\ disposed \in Seq(Loading!Plugins)
    /\ skipped \subseteq Loading!Plugins /\ running \subseteq Loading!Plugins
    /\ at \in Nat \ {0} /\ at <= Len(listeners) + 1

\* A plugin is to be loaded, or loaded, or skipped.
LoadsApart ==
    /\ OnceEach(toLoad) /\ OnceEach(loaded)
    /\ All(toLoad) \cap All(loaded) = {} /\ All(toLoad) \cap skipped = {}
    /\ All(loaded) \cap skipped = {}

\* Each of these plugins comes after those that it names.
NamedFirst(s) == \A k \in 1..Len(s) : manifest[s[k]].dependencies \subseteq Earlier(s, k)

\* The listeners from the one at i on.
From(i) == {listeners[j] : j \in {m \in 1..Len(listeners) : i <= m}}

InPhase ==
    /\ phase = "sorting" => loaded = <<>> /\ skipped = {}
    /\ disposed # <<>> => phase \in {"stopping", "stopped"}
    /\ phase \in {"sorting", "loading"} => running = {} /\ at = 1
    /\ phase = "starting" => running \subseteq All(listeners)
    /\ phase = "running" => running \subseteq All(listeners) /\ at = 1
    /\ phase = "stopping" => running \subseteq From(at)
    /\ phase = "stopping" => Len(disposed) <= Len(loaded)
                             /\ \A k \in 1..Len(disposed) : disposed[k] = loaded[k]
    /\ disposed # <<>> => running = {}
    /\ OnceEach(disposed)
    /\ disposed # <<>> /\ phase = "stopping" => at > Len(listeners)

LoadInv ==
    /\ LoadTyped /\ LoadsApart /\ InPhase
    /\ batch /\ phase # "stopped" => NamedFirst(loaded)
    /\ order # <<>> => LeastOrder(order)
    /\ phase = "refused" => Reason

LEMMA LoadBegins == ASSUME LoadBounds, Loading!Init PROVE LoadInv
<1>1. Count \in Nat /\ Loading!Plugins = 1..Count
  BY DEF LoadBounds, Loading!Plugins
<1>2. Len(<<>>) = 0 /\ <<>> \in Seq(Loading!Plugins) /\ 1..0 = {}
  BY EmptySeq
<1>3. /\ order = <<>> /\ loaded = <<>> /\ skipped = {} /\ listeners = <<>> /\ disposed = <<>>
      /\ tool = None /\ guide = None /\ contextManager = None /\ at = 1 /\ running = {}
      /\ phase \in {"sorting", "loading"} /\ phase # "refused"
  BY DEF Loading!Init
<1>4. ManifestsTyped
  <2>1. Loading!NoManifest \in Loading!Manifest
    BY DEF Loading!NoManifest, Loading!Manifest
  <2> QED
    BY <2>1 DEF Loading!Init, ManifestsTyped
<1>5. toLoad \in Seq(Loading!Plugins) /\ OnceEach(toLoad)
  <2>1. CASE toLoad = <<>>
    BY <1>2, <2>1 DEF OnceEach
  <2>2. CASE toLoad = [p \in Loading!Plugins |-> p]
    <3>1. toLoad \in [1..Count -> Loading!Plugins] /\ DOMAIN toLoad = 1..Count
      BY <1>1, <2>2
    <3>2. toLoad \in Seq(Loading!Plugins)
      BY <1>1, <3>1, SeqDef
    <3>3. Len(toLoad) = Count
      BY <1>1, <3>1, <3>2, LenProperties
    <3> QED
      BY <1>1, <2>2, <3>2, <3>3 DEF OnceEach
  <2> QED
    BY <2>1, <2>2 DEF Loading!Init
<1>6. LoadTyped
  <2>1. 1 \in Nat \ {0} /\ 1 <= Len(<<>>) + 1
    BY <1>2
  <2> QED
    BY <1>2, <1>3, <1>4, <1>5, <2>1 DEF LoadTyped, Phases
<1>7. All(<<>>) = {} /\ OnceEach(<<>>)
  BY <1>2 DEF All, OnceEach
<1>8. LoadsApart
  BY <1>3, <1>5, <1>7 DEF LoadsApart
<1>9. InPhase
  BY <1>3, <1>7 DEF InPhase
<1>10. NamedFirst(loaded)
  BY <1>2, <1>3 DEF NamedFirst
<1> QED
  BY <1>3, <1>6, <1>8, <1>9, <1>10 DEF LoadInv

LEMMA ManifestsStay ==
    ASSUME manifest' = manifest
    PROVE  /\ Loading!Extensions' = Loading!Extensions /\ (ManifestsTyped => ManifestsTyped') /\ (Reason => Reason')
           /\ \A s : NamedFirst(s) => \A k \in 1..Len(s) : manifest'[s[k]].dependencies \subseteq Earlier(s, k)
<1>1. Loading!DependencyGraph' = Loading!DependencyGraph /\ Loading!InDegree' = Loading!InDegree
  BY DEF Loading!DependencyGraph, Loading!InDegree, Loading!Provided, Loading!Provider, Loading!NamedDeps
<1> QED
  BY <1>1 DEF Loading!Extensions, ManifestsTyped, NamedFirst, Reason, Loading!Cyclic

\* When what is loaded and in which order stays.
LEMMA LoadsStay ==
    ASSUME LoadInv, UNCHANGED <<batch, manifest, toLoad, order, loaded, skipped>>, phase # "stopped"
    PROVE  LoadsApart' /\ (batch' /\ phase' # "stopped" => NamedFirst(loaded)')
           /\ (order' # <<>> => LeastOrder(order)') /\ ManifestsTyped'
<1>1. LoadsApart'
  BY DEF LoadInv, LoadsApart
<1>2. batch' /\ phase' # "stopped" => NamedFirst(loaded)'
  BY DEF LoadInv, NamedFirst
<1>3. Loading!Extensions' = Loading!Extensions /\ ManifestsTyped'
  BY ManifestsStay DEF LoadInv, LoadTyped
<1>4. order' # <<>> => LeastOrder(order)'
  BY <1>3 DEF LoadInv, LeastOrder
<1> QED
  BY <1>1, <1>2, <1>3, <1>4

LEMMA LoadSort == ASSUME LoadBounds, LoadInv, Loading!Sort PROVE LoadInv'
<1>1. /\ phase = "sorting" /\ manifest' = manifest /\ LoadTyped /\ InPhase /\ LoadsApart
      /\ UNCHANGED <<loaded, skipped, tool, guide, contextManager, listeners, at, running, disposed>>
  BY DEF Loading!Sort, LoadInv, Loading!manifests, Loading!registered, Loading!life
<1>2. loaded = <<>> /\ skipped = {} /\ running = {} /\ at = 1 /\ disposed = <<>>
  BY <1>1 DEF InPhase
<1>3. Loading!Extensions' = Loading!Extensions /\ ManifestsTyped' /\ ManifestsTyped
  BY <1>1, ManifestsStay DEF LoadTyped
<1>4. Loading!Kahn \in Seq(Loading!Plugins) /\ OnceEach(Loading!Kahn) /\ LeastSorted(Loading!Kahn)
  BY <1>3, KahnIsSound
<1>5. Len(<<>>) = 0 /\ 1..0 = {}
  OBVIOUS
<1>6. All(<<>>) = {} /\ OnceEach(<<>>)
  BY <1>5 DEF All, OnceEach
<1>7. /\ phase' \in {"refused", "loading"} /\ toLoad' \in Seq(Loading!Plugins) /\ order' \in Seq(Loading!Plugins)
      /\ OnceEach(toLoad') /\ (order' # <<>> => LeastOrder(order)')
      /\ (phase' = "refused" => Reason')
  <2>1. CASE Len(Loading!Kahn) < Count
    <3>1. phase' = "refused" /\ UNCHANGED <<toLoad, order>>
      BY <2>1 DEF Loading!Sort
    <3>2. Reason'
      BY <1>1, <1>3, <2>1, RefusalHasReason, ManifestsStay
    <3> QED
      BY <1>1, <1>3, <3>1, <3>2 DEF LoadInv, LoadTyped, LoadsApart, LeastOrder
  <2>2. CASE ~(Len(Loading!Kahn) < Count)
    <3>1. phase' = "loading" /\ toLoad' = Loading!Kahn /\ order' = Loading!Kahn
      BY <2>2 DEF Loading!Sort
    <3>2. LeastOrder(Loading!Kahn)
      BY <1>3, <1>4, <2>2, SortIsLeast
    <3>3. LeastOrder(order)'
      BY <1>3, <3>1, <3>2 DEF LeastOrder
    <3> QED
      BY <1>4, <3>1, <3>3
  <2> QED
    BY <2>1, <2>2
<1>8. LoadTyped'
  BY <1>1, <1>3, <1>7 DEF LoadTyped, Phases
<1>9. LoadsApart'
  BY <1>1, <1>2, <1>6, <1>7 DEF LoadsApart
<1>10. InPhase'
  BY <1>1, <1>2, <1>6, <1>7 DEF InPhase
<1>11. NamedFirst(loaded)'
  BY <1>1, <1>2, <1>5 DEF NamedFirst
<1> QED
  BY <1>7, <1>8, <1>9, <1>10, <1>11 DEF LoadInv

\* The first of those to load is apart from the others.
LEMMA NextToLoad ==
    ASSUME NEW s \in Seq(Loading!Plugins), s # <<>>, OnceEach(s)
    PROVE  /\ Head(s) \in Loading!Plugins /\ Tail(s) \in Seq(Loading!Plugins) /\ OnceEach(Tail(s))
           /\ Head(s) \in All(s) /\ All(Tail(s)) \subseteq All(s) /\ Head(s) \notin All(Tail(s))
<1>1. PICK t : t = Tail(s)
  OBVIOUS
<1>2. PICK c \in Nat : c = Len(t)
  BY <1>1, HeadTailProperties, LenProperties
<1>3. /\ t \in Seq(Loading!Plugins) /\ Len(s) = c + 1 /\ Head(s) = s[1] /\ s[1] \in Loading!Plugins
      /\ \A k \in 1..c : t[k] = s[k + 1]
  <2>1. /\ t \in Seq(Loading!Plugins) /\ Len(t) = Len(s) - 1 /\ Head(s) \in Loading!Plugins
        /\ \A k \in 1..Len(t) : t[k] = s[k + 1]
    BY <1>1, HeadTailProperties
  <2>2. Len(s) \in Nat
    BY LenProperties
  <2> QED
    BY <1>2, <2>1, <2>2
<1>4. 1 \in 1..(c + 1) /\ \A k \in 1..c : k + 1 \in 1..(c + 1) /\ k + 1 # 1
  OBVIOUS
<1>5. \A j, k \in 1..(c + 1) : s[j] = s[k] => j = k
  BY <1>3 DEF OnceEach
<1>6. \A j, k \in 1..c : t[j] = t[k] => j = k
  <2>1. ASSUME NEW j \in 1..c, NEW k \in 1..c, t[j] = t[k] PROVE j = k
    <3>1. j + 1 = k + 1
      BY <1>3, <1>4, <1>5, <2>1
    <3> QED
      BY <3>1
  <2> QED
    BY <2>1
<1>7. s[1] \in All(s) /\ All(t) \subseteq All(s) /\ s[1] \notin All(t)
  BY <1>2, <1>3, <1>4, <1>5 DEF All
<1> QED
  BY <1>1, <1>2, <1>3, <1>6, <1>7 DEF OnceEach

LEMMA LoadSkip == ASSUME LoadBounds, LoadInv, Loading!Skip PROVE LoadInv'
<1>1. /\ phase = "loading" /\ toLoad # <<>> /\ LoadTyped /\ InPhase /\ LoadsApart
      /\ UNCHANGED <<batch, manifest, phase, order, loaded, tool, guide, contextManager, listeners,
                     at, running, disposed>>
  BY DEF Loading!Skip, LoadInv, Loading!manifests, Loading!registered, Loading!life
<1>2. PICK p, rest : p = Head(toLoad) /\ rest = Tail(toLoad)
  OBVIOUS
<1>3. toLoad' = rest /\ skipped' = skipped \cup {p}
  BY <1>2 DEF Loading!Skip
<1>4. /\ p \in Loading!Plugins /\ rest \in Seq(Loading!Plugins) /\ OnceEach(rest)
      /\ p \in All(toLoad) /\ All(rest) \subseteq All(toLoad) /\ p \notin All(rest)
  BY <1>1, <1>2, NextToLoad DEF LoadTyped, LoadsApart
<1>5. Loading!Extensions' = Loading!Extensions /\ ManifestsTyped'
  BY <1>1, ManifestsStay DEF LoadTyped
<1>6. LoadTyped'
  BY <1>1, <1>3, <1>4, <1>5 DEF LoadTyped
<1>7. LoadsApart'
  BY <1>1, <1>3, <1>4 DEF LoadsApart
<1>8. InPhase'
  BY <1>1 DEF InPhase
<1>9. (batch' /\ phase' # "stopped" => NamedFirst(loaded)') /\ (order' # <<>> => LeastOrder(order)')
  BY <1>1, <1>5 DEF LoadInv, NamedFirst, LeastOrder
<1> QED
  BY <1>1, <1>6, <1>7, <1>8, <1>9 DEF LoadInv

LEMMA AllIsRange == ASSUME NEW s \in Seq(Loading!Plugins) PROVE Loading!Range(s) = All(s)
<1>1. DOMAIN s = 1..Len(s)
  BY LenProperties
<1> QED
  BY <1>1 DEF Loading!Range, All

LEMMA LoadLoad == ASSUME LoadBounds, LoadInv, Loading!Load PROVE LoadInv'
<1>1. /\ phase = "loading" /\ toLoad # <<>> /\ LoadTyped /\ InPhase /\ LoadsApart
      /\ Loading!Missing(Head(toLoad)) = {}
      /\ UNCHANGED <<batch, manifest, order, skipped, at, running, disposed>>
  BY DEF Loading!Load, LoadInv, Loading!manifests, Loading!life
<1>2. PICK p, rest : p = Head(toLoad) /\ rest = Tail(toLoad)
  OBVIOUS
<1>4. /\ p \in Loading!Plugins /\ rest \in Seq(Loading!Plugins) /\ OnceEach(rest)
      /\ p \in All(toLoad) /\ All(rest) \subseteq All(toLoad) /\ p \notin All(rest)
  BY <1>1, <1>2, NextToLoad DEF LoadTyped, LoadsApart
<1>5. Loading!Extensions' = Loading!Extensions /\ ManifestsTyped'
  BY <1>1, ManifestsStay DEF LoadTyped
<1>6. running = {} /\ at = 1 /\ disposed = <<>> /\ OnceEach(disposed)
  BY <1>1 DEF InPhase
<1>7. /\ listeners' \in Seq(Loading!Plugins) /\ tool' \in Loading!Plugins \cup {None}
      /\ Len(listeners') \in Nat
  <2>1. listeners' = Append(listeners, p) \/ listeners' = listeners
    BY <1>2 DEF Loading!Load
  <2>2. tool' = p \/ tool' = tool
    BY <1>2 DEF Loading!Load
  <2>3. Append(listeners, p) \in Seq(Loading!Plugins)
    BY <1>1, <1>4, AppendProperties DEF LoadTyped
  <2>4. listeners' \in Seq(Loading!Plugins)
    BY <1>1, <2>1, <2>3 DEF LoadTyped
  <2>5. tool' \in Loading!Plugins \cup {None}
    BY <1>1, <1>4, <2>2 DEF LoadTyped
  <2> QED
    BY <2>4, <2>5, LenProperties
<1>8. order' # <<>> => LeastOrder(order)'
  BY <1>1, <1>5 DEF LoadInv, LeastOrder
<1>9. 1 <= Len(listeners') + 1 /\ 1 \in Nat \ {0}
  BY <1>7
<1>10. CASE phase' = "failed" /\ UNCHANGED <<guide, contextManager, loaded, toLoad>>
  <2>1. LoadTyped'
    BY <1>1, <1>5, <1>6, <1>7, <1>9, <1>10 DEF LoadTyped, Phases
  <2>2. LoadsApart'
    BY <1>1, <1>10 DEF LoadsApart
  <2>3. InPhase'
    BY <1>1, <1>6, <1>10 DEF InPhase
  <2>4. batch' /\ phase' # "stopped" => NamedFirst(loaded)'
    BY <1>1, <1>10 DEF LoadInv, NamedFirst
  <2> QED
    BY <1>8, <1>10, <2>1, <2>2, <2>3, <2>4 DEF LoadInv
<1>11. CASE /\ guide' = (IF "guide" \in factories[p] THEN p ELSE guide)
            /\ contextManager' = (IF "manager" \in factories[p] THEN p ELSE contextManager)
            /\ loaded' = Append(loaded, p)
            /\ toLoad' = rest
            /\ UNCHANGED phase
  <2>1. PICK n \in Nat : n = Len(loaded)
    BY <1>1, LenProperties DEF LoadTyped
  <2>2. p \notin All(loaded)
    BY <1>1, <1>4 DEF LoadsApart
  <2>3. /\ loaded' \in Seq(Loading!Plugins) /\ Len(loaded') = n + 1 /\ loaded'[n + 1] = p
        /\ \A k \in 1..n : loaded'[k] = loaded[k]
        /\ All(loaded') = All(loaded) \cup {p} /\ Earlier(loaded', n + 1) = All(loaded)
        /\ \A k \in 1..n : Earlier(loaded', k) = Earlier(loaded, k)
        /\ OnceEach(loaded')
    BY <1>1, <1>4, <1>11, <2>1, <2>2, OnePluginMore DEF LoadTyped, LoadsApart
  <2>4. LoadTyped'
    <3>1. guide' \in Loading!Plugins \cup {None} /\ contextManager' \in Loading!Plugins \cup {None}
      BY <1>1, <1>4, <1>11 DEF LoadTyped
    <3> QED
      BY <1>1, <1>4, <1>5, <1>6, <1>7, <1>9, <1>11, <2>3, <3>1 DEF LoadTyped
  <2>5. LoadsApart'
    BY <1>1, <1>4, <1>11, <2>3 DEF LoadsApart
  <2>6. InPhase'
    BY <1>1, <1>6, <1>11 DEF InPhase
  <2>7. ASSUME batch PROVE NamedFirst(loaded)'
    <3>1. NamedFirst(loaded)
      BY <1>1, <2>7 DEF LoadInv
    <3>2. manifest[p].dependencies \subseteq All(loaded)
      BY <1>1, <1>2, AllIsRange DEF Loading!Missing, Loading!Loaded, LoadTyped
    <3>3. \A k \in 1..(n + 1) : k \in 1..n \/ k = n + 1
      OBVIOUS
    <3>4. ASSUME NEW k \in 1..(n + 1)
          PROVE  manifest[loaded'[k]].dependencies \subseteq Earlier(loaded', k)
      <4>1. CASE k \in 1..n
        BY <2>1, <2>3, <3>1, <4>1 DEF NamedFirst
      <4>2. CASE k = n + 1
        BY <2>3, <3>2, <4>2
      <4> QED
        BY <3>3, <4>1, <4>2
    <3> QED
      BY <1>1, <2>3, <3>4 DEF NamedFirst
  <2> QED
    BY <1>1, <1>8, <1>11, <2>4, <2>5, <2>6, <2>7 DEF LoadInv
<1>12. CASE "guide" \in factories[p] /\ guide # None
  BY <1>2, <1>10, <1>12 DEF Loading!Load
<1>13. CASE ~("guide" \in factories[p] /\ guide # None)
  BY <1>2, <1>11, <1>13 DEF Loading!Load
<1> QED
  BY <1>12, <1>13

\* When nothing more is loaded, registered or disposed.
LEMMA PhaseMoves ==
    ASSUME LoadInv, phase # "stopped", phase' \in Phases \ {"sorting", "refused"},
           UNCHANGED <<Loading!manifests, toLoad, order, loaded, skipped, Loading!registered, disposed>>,
           running' \subseteq Loading!Plugins, at' \in Nat \ {0}, at' <= Len(listeners) + 1, InPhase'
    PROVE  LoadInv'
<1>1. /\ UNCHANGED <<batch, manifest, toLoad, order, loaded, skipped, tool, guide, contextManager,
                     listeners, disposed>>
      /\ LoadTyped
  BY DEF Loading!manifests, Loading!registered, LoadInv
<1>2. LoadsApart' /\ (batch' /\ phase' # "stopped" => NamedFirst(loaded)')
      /\ (order' # <<>> => LeastOrder(order)') /\ ManifestsTyped'
  BY <1>1, LoadsStay
<1>3. LoadTyped'
  BY <1>1, <1>2 DEF LoadTyped
<1> QED
  BY <1>2, <1>3 DEF LoadInv

LEMMA LoadLoadFails == ASSUME LoadInv, Loading!LoadFails PROVE LoadInv'
<1>1. /\ phase = "loading" /\ phase' = "failed" /\ LoadTyped /\ InPhase
      /\ UNCHANGED <<Loading!manifests, toLoad, order, loaded, skipped, Loading!registered, at, running, disposed>>
  BY DEF Loading!LoadFails, LoadInv, Loading!loading, Loading!life
<1>2. InPhase'
  BY <1>1 DEF InPhase, Loading!registered
<1>3. running' \subseteq Loading!Plugins /\ at' \in Nat \ {0} /\ at' <= Len(listeners) + 1
  BY <1>1 DEF LoadTyped
<1> QED
  BY <1>1, <1>2, <1>3, PhaseMoves DEF Phases

LEMMA LoadStart == ASSUME LoadInv, Loading!Start PROVE LoadInv'
<1>1. /\ phase = "loading" /\ phase' \in {"failed", "starting"} /\ LoadTyped /\ InPhase
      /\ UNCHANGED <<Loading!manifests, toLoad, order, loaded, skipped, Loading!registered, at, running, disposed>>
  BY DEF Loading!Start, LoadInv, Loading!loading, Loading!life
<1>2. InPhase'
  BY <1>1 DEF InPhase, Loading!registered
<1>3. running' \subseteq Loading!Plugins /\ at' \in Nat \ {0} /\ at' <= Len(listeners) + 1
  BY <1>1 DEF LoadTyped
<1> QED
  BY <1>1, <1>2, <1>3, PhaseMoves DEF Phases

LEMMA LoadStartListener == ASSUME LoadInv, Loading!StartListener PROVE LoadInv'
<1>1. /\ phase = "starting" /\ LoadTyped /\ InPhase /\ at <= Len(listeners)
      /\ UNCHANGED <<Loading!manifests, toLoad, order, loaded, skipped, Loading!registered, disposed>>
      /\ disposed = <<>> /\ running \subseteq All(listeners)
  BY DEF Loading!StartListener, LoadInv, Loading!loading, InPhase
<1>2. PICK n \in Nat : n = Len(listeners)
  BY <1>1, LenProperties DEF LoadTyped
<1>3. at \in 1..n /\ at + 1 \in Nat \ {0} /\ at + 1 <= n + 1
  BY <1>1, <1>2 DEF LoadTyped
<1>4. listeners[at] \in All(listeners) /\ listeners[at] \in Loading!Plugins
  BY <1>1, <1>2, <1>3, ElementOfSeq DEF All, LoadTyped
<1>5. listeners' = listeners
  BY <1>1 DEF Loading!registered
<1>6. CASE at' = at + 1 /\ running' = running \cup {listeners[at]} /\ UNCHANGED phase
  <2>1. InPhase'
    BY <1>1, <1>4, <1>5, <1>6 DEF InPhase
  <2>2. running' \subseteq Loading!Plugins
    BY <1>1, <1>4, <1>6 DEF LoadTyped
  <2> QED
    BY <1>1, <1>2, <1>3, <1>6, <2>1, <2>2, PhaseMoves DEF Phases
<1>7. CASE phase' = "failed" /\ UNCHANGED <<at, running>>
  <2>1. InPhase'
    BY <1>1, <1>5, <1>7 DEF InPhase
  <2>2. running' \subseteq Loading!Plugins /\ at' \in Nat \ {0} /\ at' <= Len(listeners) + 1
    BY <1>1, <1>7 DEF LoadTyped
  <2> QED
    BY <1>1, <1>7, <2>1, <2>2, PhaseMoves DEF Phases
<1> QED
  BY <1>6, <1>7 DEF Loading!StartListener

LEMMA LoadStarted == ASSUME LoadInv, Loading!Started PROVE LoadInv'
<1>1. /\ phase = "starting" /\ phase' = "running" /\ at' = 1 /\ LoadTyped /\ InPhase
      /\ UNCHANGED <<Loading!manifests, toLoad, order, loaded, skipped, Loading!registered, running, disposed>>
      /\ disposed = <<>> /\ running \subseteq All(listeners)
  BY DEF Loading!Started, LoadInv, Loading!loading, InPhase
<1>2. InPhase'
  BY <1>1 DEF InPhase, Loading!registered
<1>3. running' \subseteq Loading!Plugins /\ at' \in Nat \ {0} /\ at' <= Len(listeners) + 1
  <2>1. Len(listeners) \in Nat
    BY <1>1, LenProperties DEF LoadTyped
  <2> QED
    BY <1>1, <2>1 DEF LoadTyped
<1> QED
  BY <1>1, <1>2, <1>3, PhaseMoves DEF Phases

LEMMA LoadStop == ASSUME LoadInv, Loading!Stop PROVE LoadInv'
<1>1. /\ phase = "running" /\ phase' = "stopping" /\ LoadTyped /\ InPhase
      /\ UNCHANGED <<Loading!manifests, toLoad, order, loaded, skipped, Loading!registered, at, running, disposed>>
      /\ disposed = <<>> /\ running \subseteq All(listeners) /\ at = 1
  BY DEF Loading!Stop, LoadInv, Loading!loading, Loading!life, InPhase
<1>2. All(listeners) = From(1)
  <2>1. 1..Len(listeners) = {m \in 1..Len(listeners) : 1 <= m}
    OBVIOUS
  <2> QED
    BY <2>1 DEF All, From
<1>3. /\ Len(disposed) = 0 /\ 1..0 = {} /\ Len(loaded) \in Nat
  BY <1>1, LenProperties DEF LoadTyped
<1>4. From(1)' = From(1)
  BY <1>1 DEF From, Loading!registered
<1>5. Len(disposed') <= Len(loaded') /\ \A k \in 1..Len(disposed') : disposed'[k] = loaded'[k]
  BY <1>1, <1>3
<1>6. InPhase'
  <2>1. running' \subseteq From(at)'
    BY <1>1, <1>2, <1>4
  <2> QED
    BY <1>1, <1>5, <2>1 DEF InPhase
<1>7. running' \subseteq Loading!Plugins /\ at' \in Nat \ {0} /\ at' <= Len(listeners) + 1
  BY <1>1 DEF LoadTyped
<1> QED
  BY <1>1, <1>6, <1>7, PhaseMoves DEF Phases

LEMMA LoadStopListener == ASSUME LoadInv, Loading!StopListener PROVE LoadInv'
<1>1. /\ phase = "stopping" /\ LoadTyped /\ InPhase /\ at <= Len(listeners)
      /\ UNCHANGED <<Loading!manifests, toLoad, order, loaded, skipped, Loading!registered, disposed>>
      /\ running \subseteq From(at)
  BY DEF Loading!StopListener, LoadInv, Loading!loading, InPhase
<1>2. PICK n \in Nat : n = Len(listeners)
  BY <1>1, LenProperties DEF LoadTyped
<1>3. at \in 1..n /\ at + 1 \in Nat \ {0} /\ at + 1 <= n + 1 /\ ~(at > n)
  BY <1>1, <1>2 DEF LoadTyped
<1>4. disposed = <<>> /\ listeners' = listeners /\ loaded' = loaded /\ disposed' = disposed
  BY <1>1, <1>2, <1>3 DEF InPhase, Loading!registered
<1>5. CASE UNCHANGED running /\ phase' = "halted" /\ UNCHANGED at
  <2>1. InPhase'
    BY <1>1, <1>4, <1>5 DEF InPhase
  <2>2. running' \subseteq Loading!Plugins /\ at' \in Nat \ {0} /\ at' <= Len(listeners) + 1
    BY <1>1, <1>5 DEF LoadTyped
  <2> QED
    BY <1>1, <1>5, <2>1, <2>2, PhaseMoves DEF Phases
<1>6. CASE running' = running \ {listeners[at]} /\ UNCHANGED phase /\ at' = at + 1
  <2>1. running' \subseteq From(at + 1)
    <3>1. ASSUME NEW p \in running, p # listeners[at] PROVE p \in From(at + 1)
      <4>1. PICK j \in 1..n : at <= j /\ p = listeners[j]
        BY <1>1, <1>2 DEF From
      <4>2. at + 1 <= j
        <5>1. j # at
          BY <3>1, <4>1
        <5> QED
          BY <1>3, <4>1, <5>1
      <4> QED
        BY <1>2, <4>1, <4>2 DEF From
    <3> QED
      BY <1>6, <3>1
  <2>2. From(at)' = From(at + 1)
    BY <1>4, <1>6 DEF From
  <2>3. InPhase'
    BY <1>1, <1>4, <1>6, <2>1, <2>2 DEF InPhase
  <2>4. running' \subseteq Loading!Plugins
    BY <1>1, <1>6 DEF LoadTyped
  <2> QED
    BY <1>1, <1>2, <1>3, <1>6, <2>3, <2>4, PhaseMoves DEF Phases
<1> QED
  BY <1>5, <1>6 DEF Loading!StopListener, Loading!Stopped

LEMMA LoadDispose == ASSUME LoadInv, Loading!Dispose PROVE LoadInv'
<1>1. /\ phase = "stopping" /\ phase' = phase /\ LoadTyped /\ InPhase /\ at > Len(listeners)
      /\ UNCHANGED <<batch, manifest, toLoad, order, loaded, skipped, tool, guide, contextManager,
                     listeners, at, running>>
      /\ Len(disposed) < Len(loaded) /\ disposed' = Append(disposed, loaded[Len(disposed) + 1])
      /\ running \subseteq From(at)
  BY DEF Loading!Dispose, LoadInv, Loading!loading, Loading!manifests, Loading!registered, InPhase
<1>2. PICK n, m \in Nat : n = Len(disposed) /\ m = Len(loaded)
  BY <1>1, LenProperties DEF LoadTyped
<1>3. n < m /\ n + 1 \in 1..m /\ \A k \in 1..n : disposed[k] = loaded[k]
  BY <1>1, <1>2 DEF InPhase
<1>4. PICK p \in Loading!Plugins : p = loaded[n + 1]
  BY <1>1, <1>2, <1>3, ElementOfSeq DEF LoadTyped
<1>5. p \notin All(disposed)
  <2>1. ASSUME NEW k \in 1..n PROVE disposed[k] # p
    <3>1. k \in 1..m /\ k # n + 1
      BY <1>3
    <3> QED
      BY <1>2, <1>3, <1>4, <3>1 DEF LoadInv, LoadsApart, OnceEach
  <2> QED
    BY <1>2, <2>1 DEF All
<1>6. /\ disposed' \in Seq(Loading!Plugins) /\ Len(disposed') = n + 1 /\ disposed'[n + 1] = p
      /\ \A k \in 1..n : disposed'[k] = disposed[k]
      /\ OnceEach(disposed')
  BY <1>1, <1>2, <1>4, <1>5, OnePluginMore DEF LoadTyped, InPhase
<1>7. running = {}
  <2>1. PICK c \in Nat : c = Len(listeners)
    BY <1>1, LenProperties DEF LoadTyped
  <2>2. {j \in 1..c : at <= j} = {}
    BY <1>1, <2>1 DEF LoadTyped
  <2> QED
    BY <1>1, <2>1, <2>2 DEF From
<1>8. Len(disposed') <= Len(loaded') /\ \A k \in 1..Len(disposed') : disposed'[k] = loaded'[k]
  <2>1. \A k \in 1..(n + 1) : k \in 1..n \/ k = n + 1
    OBVIOUS
  <2>2. n + 1 <= m
    BY <1>3
  <2> QED
    BY <1>1, <1>2, <1>3, <1>4, <1>6, <2>1, <2>2
<1>9. InPhase'
  BY <1>1, <1>6, <1>7, <1>8 DEF InPhase
<1>10. LoadsApart' /\ (batch' /\ phase' # "stopped" => NamedFirst(loaded)')
       /\ (order' # <<>> => LeastOrder(order)') /\ ManifestsTyped'
  BY <1>1, LoadsStay
<1>11. LoadTyped'
  BY <1>1, <1>6, <1>10 DEF LoadTyped
<1> QED
  BY <1>1, <1>9, <1>10, <1>11 DEF LoadInv

LEMMA LoadDisposed == ASSUME LoadInv, Loading!Disposed PROVE LoadInv'
<1>1. /\ phase = "stopping" /\ phase' = "stopped" /\ LoadTyped /\ InPhase /\ LoadsApart
      /\ UNCHANGED <<batch, manifest, toLoad, order, skipped, tool, guide, contextManager,
                     listeners, at, running, disposed>>
      /\ loaded' = <<>>
  BY DEF Loading!Disposed, LoadInv, Loading!manifests, Loading!registered, Loading!life
<1>2. Len(<<>>) = 0 /\ 1..0 = {} /\ <<>> \in Seq(Loading!Plugins)
  BY EmptySeq
<1>3. All(<<>>) = {} /\ OnceEach(<<>>)
  BY <1>2 DEF All, OnceEach
<1>4. Loading!Extensions' = Loading!Extensions /\ ManifestsTyped'
  BY <1>1, ManifestsStay DEF LoadTyped
<1>5. LoadTyped'
  BY <1>1, <1>2, <1>4 DEF LoadTyped, Phases
<1>6. LoadsApart'
  BY <1>1, <1>3 DEF LoadsApart
<1>7. InPhase'
  BY <1>1 DEF InPhase
<1>8. order' # <<>> => LeastOrder(order)'
  BY <1>1, <1>4 DEF LoadInv, LeastOrder
<1> QED
  BY <1>1, <1>5, <1>6, <1>7, <1>8 DEF LoadInv

LEMMA LoadNothing == ASSUME LoadInv, UNCHANGED Loading!vars PROVE LoadInv'
<1>1. UNCHANGED <<batch, manifest, toLoad, order, loaded, skipped, tool, guide, contextManager,
                  listeners, at, running, disposed, phase>>
  BY DEF Loading!vars, Loading!manifests, Loading!loading, Loading!registered, Loading!life
<1>2. Loading!Extensions' = Loading!Extensions /\ ManifestsTyped'
  BY <1>1, ManifestsStay DEF LoadInv, LoadTyped
<1>3. LoadTyped' /\ LoadsApart' /\ InPhase'
  BY <1>1, <1>2 DEF LoadInv, LoadTyped, LoadsApart, InPhase, From
<1>4. /\ (batch' /\ phase' # "stopped" => NamedFirst(loaded)') /\ (order' # <<>> => LeastOrder(order)')
      /\ (phase' = "refused" => Reason')
  BY <1>1, <1>2, ManifestsStay DEF LoadInv, NamedFirst, LeastOrder
<1> QED
  BY <1>3, <1>4 DEF LoadInv

LEMMA LoadGoesOn == ASSUME LoadBounds, LoadInv, [Loading!Next]_Loading!vars PROVE LoadInv'
BY LoadSort, LoadSkip, LoadLoad, LoadLoadFails, LoadStart, LoadStartListener, LoadStarted,
   LoadStop, LoadStopListener, LoadDispose, LoadDisposed, LoadNothing DEF Loading!Next

LEMMA LoadIsSound ==
    ASSUME LoadInv
    PROVE  Loading!TypeOK /\ Loading!OrderIsLeast /\ Loading!NamedOnesAreLoaded /\ Loading!DisposedAtRest /\ Loading!RefusedForReason
<1>1. LoadTyped /\ LoadsApart /\ InPhase
  BY DEF LoadInv
<1>2. Loading!TypeOK
  <2>1. Len(listeners) \in Nat
    BY <1>1, LenProperties DEF LoadTyped
  <2>2. at \in 1..(Len(listeners) + 1)
    BY <1>1, <2>1 DEF LoadTyped
  <2> QED
    BY <1>1, <2>2 DEF LoadTyped, Loading!TypeOK, Phases
<1>3. Loading!OrderIsLeast
  BY DEF LoadInv, Loading!OrderIsLeast, LeastOrder
<1>4. Loading!NamedOnesAreLoaded
  <2>1. Loading!Loaded = All(loaded)
    BY <1>1, AllIsRange DEF Loading!Loaded, LoadTyped
  <2> QED
    BY <1>1, <2>1 DEF LoadInv, Loading!NamedOnesAreLoaded, NamedFirst, Earlier, LoadsApart
<1>5. Loading!DisposedAtRest
  <2>1. disposed # <<>> => running = {}
    BY <1>1 DEF InPhase
  <2>2. \A i, j \in 1..Len(disposed) : i # j => disposed[i] # disposed[j]
    BY <1>1 DEF InPhase, OnceEach
  <2>3. ASSUME phase = "stopping" PROVE disposed = SubSeq(loaded, 1, Len(disposed))
    <3>1. PICK n, m \in Nat : n = Len(disposed) /\ m = Len(loaded)
      BY <1>1, LenProperties DEF LoadTyped
    <3>2. n <= m /\ \A k \in 1..n : disposed[k] = loaded[k]
      BY <1>1, <2>3, <3>1 DEF InPhase
    <3>3. \A k \in 1..n : loaded[k] \in Loading!Plugins
      <4>1. \A k \in 1..n : k \in 1..m
        BY <3>2
      <4> QED
        BY <1>1, <3>1, <4>1, ElementOfSeq DEF LoadTyped
    <3>4. PICK t : t = SubSeq(loaded, 1, n)
      OBVIOUS
    <3>5. /\ t \in Seq(Loading!Plugins) /\ Len(t) = (IF 1 <= n THEN n - 1 + 1 ELSE 0)
          /\ \A k \in 1..(n - 1 + 1) : t[k] = loaded[1 + k - 1]
      BY <3>3, <3>4, SubSeqProperties
    <3>6. Len(t) = n /\ \A k \in 1..n : k \in 1..(n - 1 + 1) /\ 1 + k - 1 = k
      BY <3>5
    <3>7. \A k \in 1..n : disposed[k] = t[k]
      BY <3>2, <3>5, <3>6
    <3> QED
      BY <1>1, <3>1, <3>4, <3>5, <3>6, <3>7, SeqEqual DEF LoadTyped
  <2> QED
    BY <2>1, <2>2, <2>3 DEF Loading!DisposedAtRest
<1>6. Loading!RefusedForReason
  BY SameCounts DEF LoadInv, Loading!RefusedForReason, Reason
<1> QED
  BY <1>2, <1>3, <1>4, <1>5, <1>6

\* However the plugins of a batch name each other and each other's services, they are
\* loaded in the least order that their dependencies allow, after all that they name,
\* and disposed of at rest; what is refused has a cycle or a dependency counted twice
\* (plugin-loader.ts, and start and stop of agent-core.ts).
THEOREM LoadingSound ==
    ASSUME LoadBounds
    PROVE  Loading!Init /\ [][Loading!Next]_Loading!vars => [](/\ Loading!TypeOK /\ Loading!OrderIsLeast /\ Loading!NamedOnesAreLoaded
                                      /\ Loading!DisposedAtRest /\ Loading!RefusedForReason)
<1>1. Loading!Init => LoadInv
  BY LoadBegins
<1>2. LoadInv /\ [Loading!Next]_Loading!vars => LoadInv'
  BY LoadGoesOn
<1>3. LoadInv => Loading!TypeOK /\ Loading!OrderIsLeast /\ Loading!NamedOnesAreLoaded /\ Loading!DisposedAtRest /\ Loading!RefusedForReason
  BY LoadIsSound
<1> QED
  BY <1>1, <1>2, <1>3, PTL

-----------------------------------------------------------------------------
(* The components in one specification (CoreParts): each moves as it does   *)
(* by itself, or not at all.                                                *)

LEMMA CoreBounds ==
    /\ MonitorBounds /\ CommandBounds /\ GearBounds /\ BusBounds
    /\ TrailBounds /\ LogBounds /\ LoadBounds
<1>1. Loading!IsFiniteSet(Services) => IsFiniteSet(Services)
  BY DEF Loading!IsFiniteSet, IsFiniteSet
<1> QED
  BY <1>1, CoreAssumption DEF MonitorBounds, CommandBounds, GearBounds, BusBounds,
     TrailBounds, LogBounds, LoadBounds

LEMMA PartsBegin ==
    PartsInit => /\ Init /\ Monitor!Init /\ Commands!Init /\ Gear!Init /\ Bus!Init
                 /\ Trail!Init /\ Audit!Init /\ Loading!Init
BY DEF PartsInit

LEMMA PartsStep ==
    [PartsNext]_allVars =>
        /\ [Next]_vars /\ [Monitor!Next]_Monitor!vars /\ [Commands!Next]_Commands!vars
        /\ [Gear!Next]_Gear!vars /\ [Bus!Next]_Bus!vars /\ [Trail!Next]_Trail!vars
        /\ [Audit!Next]_Audit!vars /\ [Loading!Next]_Loading!vars
<1> SUFFICES ASSUME [PartsNext]_allVars
             PROVE  /\ [Next]_vars /\ [Monitor!Next]_Monitor!vars
                    /\ [Commands!Next]_Commands!vars /\ [Gear!Next]_Gear!vars
                    /\ [Bus!Next]_Bus!vars /\ [Trail!Next]_Trail!vars
                    /\ [Audit!Next]_Audit!vars /\ [Loading!Next]_Loading!vars
  OBVIOUS
<1>1. /\ Next \/ UNCHANGED vars
      /\ Monitor!Next \/ UNCHANGED monitorVars
      /\ Commands!Next \/ UNCHANGED inputVars
      /\ Gear!Next \/ UNCHANGED gearVars
      /\ Bus!Next \/ UNCHANGED busVars
      /\ Trail!Next \/ UNCHANGED trailVars
      /\ Audit!Next \/ UNCHANGED auditVars
      /\ Loading!Next \/ UNCHANGED loadVars
  BY DEF PartsNext, allVars
<1>2. UNCHANGED monitorVars => UNCHANGED Monitor!vars
  BY DEF monitorVars, Monitor!vars
<1>3. UNCHANGED inputVars => UNCHANGED Commands!vars
  BY DEF inputVars, Commands!vars
<1>4. UNCHANGED gearVars => UNCHANGED Gear!vars
  BY DEF gearVars, Gear!vars
<1>5. UNCHANGED busVars => UNCHANGED Bus!vars
  BY DEF busVars, Bus!vars, Bus!mainVars, Bus!workerVars, Bus!wire, Bus!requestVars
<1>6. UNCHANGED trailVars => UNCHANGED Trail!vars
  BY DEF trailVars, Trail!vars
<1>7. UNCHANGED auditVars => UNCHANGED Audit!vars
  BY DEF auditVars, Audit!vars, Audit!fileVars
<1>8. UNCHANGED loadVars => UNCHANGED Loading!vars
  BY DEF loadVars, Loading!vars, Loading!manifests, Loading!loading, Loading!registered,
         Loading!life
<1> QED
  BY <1>1, <1>2, <1>3, <1>4, <1>5, <1>6, <1>7, <1>8

LEMMA PartsAreTheirs ==
    PartsSpec => /\ Init /\ [][Next]_vars
                 /\ Monitor!Spec /\ Commands!Spec
                 /\ Gear!Init /\ [][Gear!Next]_Gear!vars
                 /\ Bus!Init /\ [][Bus!Next]_Bus!vars
                 /\ Trail!Init /\ [][Trail!Next]_Trail!vars
                 /\ Audit!Init /\ [][Audit!Next]_Audit!vars
                 /\ Loading!Init /\ [][Loading!Next]_Loading!vars
BY PartsBegin, PartsStep, PTL DEF PartsSpec, Monitor!Spec, Commands!Spec

\* The queue neither loses, duplicates nor reorders an event, and never keeps one back from
\* a loop that waits for it (queue.ts).
THEOREM CoreQueueDelivers == PartsSpec => [](Fifo /\ NoLostWakeup)
BY PartsAreTheirs, QueueFifo, QueueNoLostWakeup, PTL

\* Only clear() strands the loop that waits for an input, and what is typed is queued,
\* answered or refused once and in its order, for any number of inputs, commands and
\* handlers (queue.ts, the command handling of agent-core.ts).
THEOREM CoreInputsArrive == PartsSpec => InputsArrive
<1>1. TypeOK => (part = "queue" => TypeOK)
  OBVIOUS
<1>2. Commands!TypeOK /\ Commands!InputsEndOnce
      => (part = "commands" => Commands!TypeOK /\ Commands!InputsEndOnce)
  OBVIOUS
<1> QED
  BY <1>1, <1>2, CoreBounds, PartsAreTheirs, QueueTypeCorrect, QueueStrandsOnlyOnClear,
     CommandsEndOnce, PTL DEF InputsArrive

\* The safety monitor's summaries are those of the whole log, and its verdicts follow from
\* that log, whatever the thresholds and the window (safety-monitor.ts).
THEOREM CoreEvidenceHalts == PartsSpec => []EvidenceHalts
<1>1. Monitor!TypeOK /\ Monitor!SummariesMatchLog /\ Monitor!NoSilentStreak /\ Monitor!HaltsOnEvidence
      => EvidenceHalts
  BY DEF EvidenceHalts
<1> QED
  BY <1>1, CoreBounds, PartsAreTheirs, MonitorFollowsLog, PTL

\* A gear that stalls is left by the next route, and the emergency begins and ends at the
\* tick that the readings call for, for any gears, weights and numbers of ticks
\* (gear-arbiter.ts and the aggregator).
THEOREM CoreGearsAnswer == PartsSpec => []GearsAnswer
<1>1. Gear!TypeOK /\ Gear!NoGearOutstays /\ Gear!EmergencyIsExact => GearsAnswer
  BY DEF GearsAnswer
<1> QED
  BY <1>1, CoreBounds, PartsAreTheirs, GearsAnswerAlways, PTL

\* A sandboxed plugin hears the events it subscribed to and is answered its own requests,
\* one plugin after another in the same worker (sandbox-manager.ts, rpc-handler.ts,
\* plugin-context-proxy.ts).
THEOREM CorePluginsHearTheirs == PartsSpec => []PluginsHearTheirs
<1>1. Bus!TypeOK /\ Bus!HandlersHearAll /\ Bus!AnsweredByTheirs => PluginsHearTheirs
  BY DEF PluginsHearTheirs
<1> QED
  BY <1>1, CoreBounds, PartsAreTheirs, PluginsHearAndGetAnswers, PTL

\* No entry of a sandboxed plugin's audit log disappears but with a flush that failed or
\* the oldest file, and the files of the audit trail verify and miss none between two, for
\* any sizes and numbers of files (audit-logger.ts, audit-trail-writer.ts).
THEOREM CoreEntriesAreKept == PartsSpec => []EntriesAreKept
<1>1. Audit!EntriesAreKept /\ Trail!FilesVerify /\ Trail!NoneLostWithin => EntriesAreKept
  BY DEF EntriesAreKept
<1> QED
  BY <1>1, CoreBounds, PartsAreTheirs, LogKeepsEntries, TrailIsWhole, PTL

\* Plugins are loaded in the least order that their dependencies allow, or refused for a
\* cycle or a dependency counted twice; nothing that was named is missing before one that
\* is loaded, and all are disposed of at rest, for any number of plugins, manifests and
\* hooks (plugin-loader.ts, agent-core.ts).
THEOREM CoreLoadingIsSound == PartsSpec => []LoadingIsSound
<1>1. Loading!TypeOK /\ Loading!OrderIsLeast /\ Loading!NamedOnesAreLoaded /\ Loading!DisposedAtRest
      /\ Loading!RefusedForReason => LoadingIsSound
  BY DEF LoadingIsSound
<1> QED
  BY <1>1, CoreBounds, PartsAreTheirs, LoadingSound, PTL


-----------------------------------------------------------------------------
(* The pool of sandbox workers.  Its theorems are those of the module       *)
(* SandboxProofs, which extends an instance of the model of its own; the    *)
(* lemmas say, operator by operator, that it is the one CoreParts has.      *)

PoolTheory == INSTANCE SandboxProofs WITH MaxCalls <- MaxToolCalls, calls <- toolCalls

LEMMA SameVictims ==
    ASSUME NEW ws
    PROVE  Pool!Victims(ws) = PoolTheory!Victims(ws)
BY DEF PoolTheory!Victims, Pool!Victims, PoolTheory!States, Pool!States

LEMMA SameCrashed ==
    ASSUME NEW i, NEW quiet
    PROVE  Pool!Crashed(i, quiet) = PoolTheory!Crashed(i, quiet)
BY DEF PoolTheory!Crashed, Pool!Crashed

LEMMA SameFailLoads ==
    ASSUME NEW states, NEW entries, NEW I, NEW next
    PROVE  Pool!FailLoads(states, entries, I, next) <=> PoolTheory!FailLoads(states, entries, I, next)
BY DEF PoolTheory!FailLoads, Pool!FailLoads, PoolTheory!Plugins, Pool!Plugins

LEMMA SameWithout ==
    ASSUME NEW entries, NEW I
    PROVE  Pool!Without(entries, I) = PoolTheory!Without(entries, I)
BY DEF PoolTheory!Without, Pool!Without, PoolTheory!Plugins, Pool!Plugins

LEMMA SameGone ==
    ASSUME NEW ws
    PROVE  Pool!Gone(ws) <=> PoolTheory!Gone(ws)
BY DEF PoolTheory!Gone, Pool!Gone, PoolTheory!Workers, Pool!Workers

LEMMA SameAwaitsInit ==
    ASSUME NEW i
    PROVE  Pool!AwaitsInit(i) <=> PoolTheory!AwaitsInit(i)
BY DEF PoolTheory!AwaitsInit, Pool!AwaitsInit

LEMMA SameRoom == Pool!Room <=> PoolTheory!Room
<1> DEFINE waiting == {j \in Pool!States : st[j].restart = "backoff"}
<1>1. PoolTheory!Cardinality(waiting) = Pool!Cardinality(waiting)
  BY DEF PoolTheory!Cardinality, Pool!Cardinality, PoolTheory!IsFiniteSet, Pool!IsFiniteSet
<1> QED
  BY <1>1 DEF PoolTheory!Room, Pool!Room, PoolTheory!States, Pool!States

LEMMA SameDie ==
    ASSUME NEW ws, NEW quiet, NEW next
    PROVE  Pool!Die(ws, quiet, next) <=> PoolTheory!Die(ws, quiet, next)
BY SameVictims, SameCrashed, SameFailLoads, SameWithout, SameGone, SameAwaitsInit DEF
       PoolTheory!Die, Pool!Die, PoolTheory!Plugins, Pool!Plugins, PoolTheory!States,
       Pool!States

LEMMA SameInvokeTool ==
    ASSUME NEW p
    PROVE  Pool!InvokeTool(p) <=> PoolTheory!InvokeTool(p)
BY DEF PoolTheory!InvokeTool, Pool!InvokeTool, PoolTheory!historyVars, Pool!historyVars,
       PoolTheory!poolVars, Pool!poolVars, PoolTheory!Message, Pool!Message,
       PoolTheory!Post, Pool!Post, PoolTheory!Workers, Pool!Workers

LEMMA SameStop == Pool!Stop <=> PoolTheory!Stop
BY DEF PoolTheory!Stop, Pool!Stop, PoolTheory!historyVars, Pool!historyVars,
       PoolTheory!managerVars, Pool!managerVars, PoolTheory!poolVars, Pool!poolVars,
       PoolTheory!workerVars, Pool!workerVars

LEMMA SameShutdownAll == Pool!ShutdownAll <=> PoolTheory!ShutdownAll
BY DEF PoolTheory!ShutdownAll, Pool!ShutdownAll, PoolTheory!poolVars, Pool!poolVars,
       PoolTheory!Unowned, Pool!Unowned, PoolTheory!States, Pool!States, PoolTheory!Plugins,
       Pool!Plugins, PoolTheory!ShutdownPlugins, Pool!ShutdownPlugins, PoolTheory!Message,
       Pool!Message, PoolTheory!Release, Pool!Release, PoolTheory!Pooled, Pool!Pooled,
       PoolTheory!Workers, Pool!Workers, PoolTheory!Closing, Pool!Closing

LEMMA SameDisposeNext == Pool!DisposeNext <=> PoolTheory!DisposeNext
BY DEF PoolTheory!DisposeNext, Pool!DisposeNext, PoolTheory!historyVars, Pool!historyVars,
       PoolTheory!poolVars, Pool!poolVars, PoolTheory!ShutdownPlugins, Pool!ShutdownPlugins,
       PoolTheory!Message, Pool!Message, PoolTheory!Release, Pool!Release,
       PoolTheory!Pooled, Pool!Pooled, PoolTheory!Workers, Pool!Workers, PoolTheory!Closing,
       Pool!Closing, PoolTheory!States, Pool!States

LEMMA SameStarted == Pool!Started <=> PoolTheory!Started
BY DEF PoolTheory!Started, Pool!Started, PoolTheory!historyVars, Pool!historyVars,
       PoolTheory!managerVars, Pool!managerVars, PoolTheory!poolVars, Pool!poolVars,
       PoolTheory!workerVars, Pool!workerVars, PoolTheory!StartupLoads, Pool!StartupLoads,
       PoolTheory!States, Pool!States

LEMMA SameLoadNext == Pool!LoadNext <=> PoolTheory!LoadNext
BY DEF PoolTheory!LoadNext, Pool!LoadNext, PoolTheory!historyVars, Pool!historyVars,
       PoolTheory!managerVars, Pool!managerVars, PoolTheory!poolVars, Pool!poolVars,
       PoolTheory!workerVars, Pool!workerVars, PoolTheory!LoadInSandbox, Pool!LoadInSandbox,
       PoolTheory!Message, Pool!Message, PoolTheory!Post, Pool!Post, PoolTheory!Workers,
       Pool!Workers, PoolTheory!NewState, Pool!NewState, PoolTheory!Pooled, Pool!Pooled,
       PoolTheory!Acquire, Pool!Acquire, PoolTheory!StartupLoads, Pool!StartupLoads,
       PoolTheory!States, Pool!States

LEMMA SameRpcTimeout ==
    ASSUME NEW r
    PROVE  Pool!RpcTimeout(r) <=> PoolTheory!RpcTimeout(r)
BY DEF PoolTheory!RpcTimeout, Pool!RpcTimeout, PoolTheory!historyVars, Pool!historyVars,
       PoolTheory!poolVars, Pool!poolVars, PoolTheory!workerVars, Pool!workerVars,
       PoolTheory!FailLoads, Pool!FailLoads, PoolTheory!Plugins, Pool!Plugins

LEMMA SameCloseTimeout ==
    ASSUME NEW c
    PROVE  Pool!CloseTimeout(c) <=> PoolTheory!CloseTimeout(c)
BY DEF PoolTheory!CloseTimeout, Pool!CloseTimeout, PoolTheory!CloseEnds, Pool!CloseEnds,
       PoolTheory!Without, Pool!Without, PoolTheory!Plugins, Pool!Plugins,
       PoolTheory!FailLoads, Pool!FailLoads, PoolTheory!Gone, Pool!Gone, PoolTheory!Workers,
       Pool!Workers, PoolTheory!AwaitsInit, Pool!AwaitsInit

LEMMA SameCloseEnds ==
    ASSUME NEW c
    PROVE  Pool!CloseEnds(c) <=> PoolTheory!CloseEnds(c)
BY DEF PoolTheory!CloseEnds, Pool!CloseEnds, PoolTheory!Without, Pool!Without,
       PoolTheory!Plugins, Pool!Plugins, PoolTheory!FailLoads, Pool!FailLoads,
       PoolTheory!Gone, Pool!Gone, PoolTheory!Workers, Pool!Workers, PoolTheory!AwaitsInit,
       Pool!AwaitsInit

LEMMA SameRestartRejected ==
    ASSUME NEW j
    PROVE  Pool!RestartRejected(j) <=> PoolTheory!RestartRejected(j)
BY DEF PoolTheory!RestartRejected, Pool!RestartRejected, PoolTheory!historyVars,
       Pool!historyVars, PoolTheory!loaderVars, Pool!loaderVars, PoolTheory!poolVars,
       Pool!poolVars, PoolTheory!workerVars, Pool!workerVars

LEMMA SameRestart ==
    ASSUME NEW j
    PROVE  Pool!Restart(j) <=> PoolTheory!Restart(j)
BY DEF PoolTheory!Restart, Pool!Restart, PoolTheory!LoadInSandbox, Pool!LoadInSandbox,
       PoolTheory!historyVars, Pool!historyVars, PoolTheory!Message, Pool!Message,
       PoolTheory!Post, Pool!Post, PoolTheory!Workers, Pool!Workers, PoolTheory!NewState,
       Pool!NewState, PoolTheory!Pooled, Pool!Pooled, PoolTheory!poolVars, Pool!poolVars,
       PoolTheory!Acquire, Pool!Acquire

LEMMA SameInitFails ==
    ASSUME NEW d, NEW kept
    PROVE  Pool!InitFails(d, kept) <=> PoolTheory!InitFails(d, kept)
BY DEF PoolTheory!InitFails, Pool!InitFails, PoolTheory!AwaitsInit, Pool!AwaitsInit,
       PoolTheory!ShutdownPlugins, Pool!ShutdownPlugins, PoolTheory!Message, Pool!Message,
       PoolTheory!Release, Pool!Release, PoolTheory!Pooled, Pool!Pooled, PoolTheory!Workers,
       Pool!Workers, PoolTheory!Closing, Pool!Closing, PoolTheory!States, Pool!States,
       PoolTheory!Ends, Pool!Ends, PoolTheory!historyVars, Pool!historyVars,
       PoolTheory!poolVars, Pool!poolVars

LEMMA SameInitSucceeds ==
    ASSUME NEW d
    PROVE  Pool!InitSucceeds(d) <=> PoolTheory!InitSucceeds(d)
BY DEF PoolTheory!InitSucceeds, Pool!InitSucceeds, PoolTheory!AwaitsInit, Pool!AwaitsInit,
       PoolTheory!Inherits, Pool!Inherits, PoolTheory!States, Pool!States, PoolTheory!Ends,
       Pool!Ends, PoolTheory!historyVars, Pool!historyVars, PoolTheory!poolVars,
       Pool!poolVars

LEMMA SameResetEnds ==
    ASSUME NEW d
    PROVE  Pool!ResetEnds(d) <=> PoolTheory!ResetEnds(d)
BY DEF PoolTheory!ResetEnds, Pool!ResetEnds, PoolTheory!Acknowledge, Pool!Acknowledge,
       PoolTheory!Ends, Pool!Ends, PoolTheory!historyVars, Pool!historyVars,
       PoolTheory!poolVars, Pool!poolVars

LEMMA SameAcknowledge ==
    ASSUME NEW w
    PROVE  Pool!Acknowledge(w) <=> PoolTheory!Acknowledge(w)
BY DEF PoolTheory!Acknowledge, Pool!Acknowledge

LEMMA SameToolEnds ==
    ASSUME NEW d
    PROVE  Pool!ToolEnds(d) <=> PoolTheory!ToolEnds(d)
BY DEF PoolTheory!ToolEnds, Pool!ToolEnds, PoolTheory!Ends, Pool!Ends,
       PoolTheory!historyVars, Pool!historyVars, PoolTheory!poolVars, Pool!poolVars

LEMMA SameCrash ==
    ASSUME NEW w, NEW quiet
    PROVE  Pool!Crash(w, quiet) <=> PoolTheory!Crash(w, quiet)
BY SameDie, SameRoom DEF PoolTheory!Crash, Pool!Crash, PoolTheory!poolVars, Pool!poolVars,
       PoolTheory!States, Pool!States

LEMMA SameQuit ==
    ASSUME NEW w
    PROVE  Pool!Quit(w) <=> PoolTheory!Quit(w)
BY DEF PoolTheory!Quit, Pool!Quit, PoolTheory!historyVars, Pool!historyVars,
       PoolTheory!loaderVars, Pool!loaderVars, PoolTheory!managerVars, Pool!managerVars,
       PoolTheory!poolVars, Pool!poolVars, PoolTheory!Gone, Pool!Gone, PoolTheory!Workers,
       Pool!Workers

LEMMA SameBegin ==
    ASSUME NEW w
    PROVE  Pool!Begin(w) <=> PoolTheory!Begin(w)
BY DEF PoolTheory!Begin, Pool!Begin, PoolTheory!historyVars, Pool!historyVars,
       PoolTheory!loaderVars, Pool!loaderVars, PoolTheory!poolVars, Pool!poolVars,
       PoolTheory!Acknowledge, Pool!Acknowledge

LEMMA SamePoolStops == Pool!PoolStops <=> PoolTheory!PoolStops
BY DEF PoolTheory!PoolStops, Pool!PoolStops

LEMMA SameStopPool ==
    ASSUME NEW quiet
    PROVE  Pool!StopPool(quiet) <=> PoolTheory!StopPool(quiet)
BY SameDie, SameRoom DEF PoolTheory!StopPool, Pool!StopPool, PoolTheory!Plugins,
       Pool!Plugins, PoolTheory!PoolStops, Pool!PoolStops

LEMMA SamePoolSteps == Pool!Next => PoolTheory!Next
BY SameInvokeTool, SameStop, SameShutdownAll, SameDisposeNext, SameStarted, SameLoadNext,
       SameRpcTimeout, SameCloseTimeout, SameCloseEnds, SameRestartRejected, SameRestart,
       SameInitFails, SameInitSucceeds, SameResetEnds, SameAcknowledge, SameToolEnds,
       SameCrash, SameQuit, SameBegin, SamePoolStops, SameStopPool DEF PoolTheory!Next,
       Pool!Next, PoolTheory!UserStep, Pool!UserStep, PoolTheory!Plugins, Pool!Plugins,
       PoolTheory!MainStep, Pool!MainStep, PoolTheory!States, Pool!States,
       PoolTheory!WorkerStep, Pool!WorkerStep, PoolTheory!Resumes, Pool!Resumes,
       PoolTheory!Resume, Pool!Resume

LEMMA SamePoolStart == Pool!Init => PoolTheory!Init
BY DEF PoolTheory!Init, Pool!Init, PoolTheory!Plugins, Pool!Plugins, PoolTheory!Workers,
       Pool!Workers

LEMMA SamePoolVars == UNCHANGED poolVars => UNCHANGED PoolTheory!vars
BY DEF poolVars, PoolTheory!vars, PoolTheory!historyVars, PoolTheory!loaderVars,
       PoolTheory!managerVars, PoolTheory!poolVars, PoolTheory!workerVars

LEMMA SamePromise == PoolTheory!PluginsKeepWorkers => Pool!PluginsKeepWorkers
BY DEF PoolTheory!PluginsKeepWorkers, Pool!PluginsKeepWorkers,
       PoolTheory!RestartsAreBounded, Pool!RestartsAreBounded, PoolTheory!States,
       Pool!States, PoolTheory!OneRestart, Pool!OneRestart, PoolTheory!AwaitsInit,
       Pool!AwaitsInit, PoolTheory!OneCopy, Pool!OneCopy, PoolTheory!CallsStayHome,
       Pool!CallsStayHome, PoolTheory!LoadedStays, Pool!LoadedStays, PoolTheory!Plugins,
       Pool!Plugins, PoolTheory!OneOwner, Pool!OneOwner, PoolTheory!TypeOK, Pool!TypeOK,
       PoolTheory!Workers, Pool!Workers, PoolTheory!States_, Pool!States_,
       PoolTheory!Messages, Pool!Messages

\* A worker of the pool has one plugin, that plugin's code and only its calls, and a plugin
\* one worker, one restart at a time and a bounded number of them, for any plugins, workers,
\* restarts and calls (worker-pool.ts, sandbox-manager.ts, plugin-worker-runner.ts).
THEOREM CorePluginsKeepWorkers == PartsSpec => []PluginsKeepWorkers
<1>1. PoolTheory!SandboxAssumption
  BY CoreAssumption DEF PoolTheory!SandboxAssumption, PoolTheory!Plugins, Pool!Plugins
<1>2. PartsInit => PoolTheory!Init
  BY SamePoolStart DEF PartsInit
<1>3. [PartsNext]_allVars => [PoolTheory!Next]_PoolTheory!vars
  <2> SUFFICES ASSUME [PartsNext]_allVars PROVE PoolTheory!Next \/ UNCHANGED PoolTheory!vars
    OBVIOUS
  <2>1. Pool!Next \/ UNCHANGED poolVars
    BY DEF PartsNext, allVars
  <2> QED
    BY <2>1, SamePoolSteps, SamePoolVars
<1>4. PoolTheory!Steps => []PoolTheory!PluginsKeepWorkers
  BY <1>1, PoolTheory!SandboxPluginsKeepWorkers
<1>5. PoolTheory!PluginsKeepWorkers => PluginsKeepWorkers
  BY SamePromise DEF PluginsKeepWorkers
<1> QED
  BY <1>2, <1>3, <1>4, <1>5, PTL DEF PartsSpec, PoolTheory!Steps
=============================================================================
