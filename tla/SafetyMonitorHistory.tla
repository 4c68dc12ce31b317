------------------------ MODULE SafetyMonitorHistory ------------------------
(***************************************************************************)
(* The safety monitor on its own: any sequence of tool outcomes and        *)
(* resets, with the log of the outcomes since the last reset kept beside   *)
(* it.  The monitor keeps three sliding summaries of that log; the         *)
(* properties compare them, and the verdicts drawn from them, with         *)
(* definitions over the log itself.                                        *)
(***************************************************************************)
EXTENDS SafetyMonitor

CONSTANT MaxLog   \* bound: tool executions between two resets

VARIABLES
    monitor,      \* the monitor's counters
    log,          \* history: every execution since the last reset
    verdict       \* the last verdict

vars == <<monitor, log, verdict>>

Init ==
    /\ monitor = Fresh
    /\ log = <<>>
    /\ verdict = "none"

AfterToolExecution(fp, isError) ==
    /\ Len(log) < MaxLog
    /\ monitor' = RecordExecution(monitor, fp, isError)
    /\ verdict' = Verdict(monitor', fp, isError)
    /\ log' = Append(log, [fp |-> fp, isError |-> isError])

Reset ==
    /\ monitor' = Fresh
    /\ log' = <<>>
    /\ verdict' = "none"

Next ==
    \/ \E fp \in Prints, isError \in BOOLEAN : AfterToolExecution(fp, isError)
    \/ Reset

Spec == Init /\ [][Next]_vars

-----------------------------------------------------------------------------
\* The last n executions, or all of them if there are fewer.
Lately(n) == SubSeq(log, IF n >= Len(log) THEN 1 ELSE Len(log) - n + 1, Len(log))

AllFailed(s) == \A i \in DOMAIN s : s[i].isError

\* The longest run of failures that ends the log.
Streak == CHOOSE n \in 0..Len(log) :
              AllFailed(Lately(n)) /\ (n = Len(log) \/ ~log[Len(log) - n].isError)

FailuresOf(s) == Cardinality({i \in DOMAIN s : s[i].isError})

TypeOK ==
    /\ monitor \in Counters
    /\ Len(monitor.prints) <= RepetitiveFailThreshold
    /\ Len(monitor.window) <= ErrorWindowSize
    /\ verdict \in {"none", "repeat", "frustrated", "halt"}

\* The sliding summaries are what a reading of the whole log gives: the streak
\* of failures, the fingerprints of its last ones, and the outcomes of the last
\* ErrorWindowSize executions.
SummariesMatchLog ==
    /\ monitor.fails = Streak
    /\ monitor.window = [i \in DOMAIN Lately(ErrorWindowSize) |->
                            Lately(ErrorWindowSize)[i].isError]
    /\ LET n == IF Streak < RepetitiveFailThreshold THEN Streak ELSE RepetitiveFailThreshold
       IN  monitor.prints = [i \in 1..n |-> Lately(n)[i].fp]

\* A streak of FrustrationThreshold failures never passes without a reaction.
NoSilentStreak ==
    Len(log) >= FrustrationThreshold /\ AllFailed(Lately(FrustrationThreshold))
        => verdict # "none"

\* The agent is halted on the evidence of a full window with the configured
\* share of failures, and never by an execution that succeeded.
HaltsOnEvidence ==
    verdict = "halt" =>
        /\ Len(log) >= ErrorWindowSize
        /\ FailuresOf(Lately(ErrorWindowSize)) * RateDen >= RateNum * ErrorWindowSize
        /\ log[Len(log)].isError
=============================================================================
