------------------------------ MODULE MCSandbox ------------------------------
(* Model-checking instances of Sandbox: two pooled plugins, and one pooled     *)
(* plugin beside one with a worker of its own.                                 *)
EXTENDS Sandbox

CONSTANTS p1, p2, p3

Pooled2 == <<p1, p3>>
Mixed == <<p1, p2>>

-----------------------------------------------------------------------------
\* Whatever workers die, every tool call and every stop of a plugin comes to its end.
SandboxSettles == CallsEnd /\ StopEnds
=============================================================================
