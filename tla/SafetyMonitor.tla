--------------------------- MODULE SafetyMonitor ---------------------------
(***************************************************************************)
(* The counters that decide when an agent is warned or locked out          *)
(* (packages/core/src/security/safety-monitor.ts), as operators on a       *)
(* record, so that the execution loop and a stand-alone specification can  *)
(* both drive them.                                                        *)
(*                                                                         *)
(* A tool call is known to the monitor by its fingerprint, the hash of its *)
(* name and arguments; the error rate threshold is the fraction            *)
(* RateNum / RateDen.                                                      *)
(*                                                                         *)
(* BudgetHaltsLate, SlideNever, RecordKeepingPrints, FrustratedLate and    *)
(* CascadesEarly are faulty forms of the definitions that follow them, for *)
(* the mutation runs of the README.                                        *)
(***************************************************************************)
EXTENDS Naturals, FiniteSets, Sequences

CONSTANTS
    Prints,                    \* fingerprints of tool calls
    MaxLoopTicks,              \* loop ticks allowed per input (0: no limit)
    MaxTokenUsage,             \* tokens allowed between resets (0: no limit)
    RepetitiveFailThreshold,   \* identical failures in a row before a warning
    FrustrationThreshold,      \* failures in a row before a warning
    ErrorWindowSize,           \* executions over which the error rate is taken
    RateNum, RateDen           \* error rate that halts the agent

\* The configuration schema accepts positive thresholds and a rate in [0, 1].
ASSUME MonitorAssumption ==
    /\ MaxLoopTicks \in Nat
    /\ MaxTokenUsage \in Nat
    /\ RepetitiveFailThreshold \in Nat \ {0}
    /\ FrustrationThreshold \in Nat \ {0}
    /\ ErrorWindowSize \in Nat \ {0}
    /\ RateNum \in Nat /\ RateDen \in Nat \ {0} /\ RateNum <= RateDen

\* The counters: ticks of this turn, tokens, failures in a row, the last failed
\* calls, and the outcomes (TRUE: error) of the last executions.
Counters == [ticks : Nat, tokens : Nat, fails : Nat, prints : Seq(Prints),
             window : Seq(BOOLEAN)]

\* createSafetyMonitor, and what reset() goes back to.
Fresh == [ticks |-> 0, tokens |-> 0, fails |-> 0, prints |-> <<>>, window |-> <<>>]

OnLoopStart(m) == [m EXCEPT !.ticks = 0]

OnLoopTick(m) == [m EXCEPT !.ticks = @ + 1]

TickHalts(m) == MaxLoopTicks > 0 /\ m.ticks > MaxLoopTicks

BudgetHaltsLate(m) == MaxTokenUsage > 0 /\ m.tokens > MaxTokenUsage

BudgetHalts(m) == MaxTokenUsage > 0 /\ m.tokens >= MaxTokenUsage

TrackTokenUsage(m, n) == [m EXCEPT !.tokens = @ + n]

SlideNever(s, e, size) == Append(s, e)

\* An array that forgets its oldest element beyond `size`.
Slide(s, e, size) ==
    LET t == Append(s, e) IN IF Len(t) > size THEN Tail(t) ELSE t

RecordKeepingPrints(m, fp, isError) ==
    [m EXCEPT !.window = Slide(@, isError, ErrorWindowSize),
              !.fails  = IF isError THEN @ + 1 ELSE 0,
              !.prints = IF isError THEN Slide(@, fp, RepetitiveFailThreshold) ELSE @]

\* The bookkeeping of afterToolExecution.
RecordExecution(m, fp, isError) ==
    [m EXCEPT !.window = Slide(@, isError, ErrorWindowSize),
              !.fails  = IF isError THEN @ + 1 ELSE 0,
              !.prints = IF isError THEN Slide(@, fp, RepetitiveFailThreshold) ELSE <<>>]

Repeats(m, fp) ==
    /\ Len(m.prints) >= RepetitiveFailThreshold
    /\ \A i \in 1..Len(m.prints) : m.prints[i] = fp

FrustratedLate(m) == m.fails > FrustrationThreshold

Frustrated(m) == m.fails >= FrustrationThreshold

ErrorCount(w) == Cardinality({i \in DOMAIN w : w[i]})

CascadesEarly(m) == ErrorCount(m.window) * RateDen >= RateNum * Len(m.window)

Cascades(m) ==
    /\ Len(m.window) >= ErrorWindowSize
    /\ ErrorCount(m.window) * RateDen >= RateNum * Len(m.window)

\* What afterToolExecution returns once it has updated the counters: the three
\* tests stand in this order and the first that holds returns.
Verdict(m, fp, isError) ==
    IF ~isError THEN "none"
    ELSE IF Repeats(m, fp) THEN "repeat"
    ELSE IF Frustrated(m) THEN "frustrated"
    ELSE IF Cascades(m) THEN "halt"
    ELSE "none"

Warns(v) == v \in {"repeat", "frustrated"}
=============================================================================
