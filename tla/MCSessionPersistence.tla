------------------------ MODULE MCSessionPersistence ------------------------
(***************************************************************************)
(* A model-checking instance of SessionPersistence in two parts that        *)
(* together stay small: one session with jobs that overlap, and two         *)
(* sessions with one job at a time, none of which fails.                    *)
(***************************************************************************)
EXTENDS SessionPersistence

CONSTANTS s1, s2

VARIABLE half

Part ==
    /\ half = "overlapping" /\ Running => calls'[s2] = 0
    /\ half = "alternating" =>
        /\ Cardinality(jobs') <= 1 /\ failures' = 0
        /\ \A s \in Sessions : calls'[s] < MaxCalls

HalvesInit == Init /\ half \in {"overlapping", "alternating"}

Halves == [][Next /\ Part /\ UNCHANGED half]_<<vars, half>> /\ Fairness

HalvesSpec == HalvesInit /\ Halves
=============================================================================
