----------------------------- MODULE GearRouting -----------------------------
(***************************************************************************)
(* Which gear the agent answers in: mano/mano-aggregator.ts with its       *)
(* threshold (klesha.ts, gear-arbiter.ts), its emergency boost             *)
(* (vedana-emergency.ts) and the watchdog the agent core hangs on its      *)
(* announcements (vitakka-watchdog.ts, agent-core.ts).                     *)
(*                                                                         *)
(* One loop routes, so routes do not overlap, but each arbiter and the     *)
(* auditor is awaited: what monitors and plugins report in between counts. *)
(* Numbers are hundredths.  The arbiters, sensors, monitors and the        *)
(* auditor are plugins: what they answer is any member of a small set.     *)
(***************************************************************************)
EXTENDS Integers, Sequences

CONSTANTS
  Gears, DefaultGear,       \* the gears arbiters may name
  Risks, NoRisk, Destructive,
  RiskDelta,                \* [Risks -> Int]
  BaseThreshold, MinThreshold, MaxThreshold, Floor, Ceiling,
  SnehaWeight, ManaWeight, Signals,   \* klesha weights (per unit), signal values
  SustainedTicks, CooldownTicks, MaxBoost,
  QualityAlpha, Qualities,  \* loop quality, of 100
  Caps,                     \* [Gears -> cap], 100 where none is configured
  MaxAuditDelta, Deltas,
  Confidences,              \* what arbiters answer
  MaxHistory,               \* historicalConfidenceSize
  MaxCycles,                \* [Gears -> limit of consecutive cycles]
  ExtraKeys,                \* what plugins may add to an audit's context
  MaxArbiters, MaxRoutes    \* bounds

VARIABLES
  forcedGear, emergency, historicalBuffer, extras,   \* the aggregator
  cycles,                   \* the watchdog: consecutiveGearCycles
  route,                    \* the route under way
  routes,                   \* routes begun (bounded)
  lately,                   \* the last evaluated routes: dukkha? boosted?
  uses,                     \* decisions for each gear since the default was announced
  decided                   \* the last decision

aggregatorVars == <<forcedGear, emergency, historicalBuffer, extras>>
vars == <<forcedGear, emergency, historicalBuffer, extras, cycles, route, routes,
          lately, uses, decided>>

NoRoute == [stage |-> "idle"]
NoUses == [g \in Gears |-> 0]
Undecided == [gear |-> DefaultGear, raw |-> 0, confidence |-> 0, risk |-> NoRisk]

Init ==
  /\ forcedGear = {}
  /\ emergency = [ticks |-> 0, cooldown |-> 0]
  /\ historicalBuffer = <<>>
  /\ extras = {}
  /\ cycles = NoUses
  /\ route = NoRoute
  /\ routes = 0
  /\ lately = <<>>
  /\ uses = NoUses
  /\ decided = Undecided

Least(a, b) == IF a < b THEN a ELSE b
Most(a, b) == IF a > b THEN a ELSE b
Within(lo, x, hi) == Most(lo, Least(hi, x))

\* The last n elements of s and the newcomer x.
Kept(s, x, n) ==
  LET t == Append(s, x) IN IF Len(t) > n THEN SubSeq(t, Len(t) - n + 1, Len(t)) ELSE t

-----------------------------------------------------------------------------
(* The threshold of an evaluation                                          *)

\* KleshaModulatedDispatcher.computeThreshold
Modulated(sneha, mana) ==
  Within(MinThreshold, BaseThreshold + SnehaWeight * sneha + ManaWeight * mana, MaxThreshold)

\* computeAdjustedThreshold, for arbiters that declare a risk category
Adjusted(base, risk) ==
  IF risk = NoRisk THEN base ELSE Within(Floor, base + RiskDelta[risk], Ceiling)

\* Layer 3: a good loop lowers the threshold, to the floor at most.
Eased(threshold, q) ==
  IF QualityAlpha > 0 /\ q > 0
  THEN Most(Floor, (threshold * (10000 - QualityAlpha * q)) \div 10000)
  ELSE threshold

-----------------------------------------------------------------------------
(* The emergency boost: checkVedanaEmergency                                *)

Sustained(dukkha) == dukkha /\ emergency.ticks + 1 >= SustainedTicks

\* A bug: the cooldown runs one tick short.
CalmedEarly(dukkha) ==
  IF emergency.cooldown > 1 THEN [ticks |-> 0, cooldown |-> emergency.cooldown - 1]
  ELSE IF Sustained(dukkha) THEN [ticks |-> 0, cooldown |-> CooldownTicks]
  ELSE [ticks |-> IF dukkha THEN emergency.ticks + 1 ELSE 0, cooldown |-> 0]

Calmed(dukkha) ==
  IF emergency.cooldown > 0 THEN [ticks |-> 0, cooldown |-> emergency.cooldown - 1]
  ELSE IF Sustained(dukkha) THEN [ticks |-> 0, cooldown |-> CooldownTicks]
  ELSE [ticks |-> IF dukkha THEN emergency.ticks + 1 ELSE 0, cooldown |-> 0]

Boosted(dukkha) == emergency.cooldown = 0 /\ Sustained(dukkha)

-----------------------------------------------------------------------------
(* The announcement of a gear, and the watchdog that hears it at once       *)

\* A bug: a stall is told only when it lasts.
StalledLate(gear, overlong) ==
  \/ cycles[gear] + 1 > MaxCycles[gear]
  \/ overlong /\ cycles[gear] > 0

\* recordGearCycle counts a gear until the default gear is announced, which
\* resets every count.  "overlong" is the duration limit, counted from the
\* first announcement.
Stalled(gear, overlong) ==
  \/ cycles[gear] + 1 >= MaxCycles[gear]
  \/ overlong /\ cycles[gear] > 0

\* bus.on('gear:switch') of the agent core; "left" is what the route leaves
\* of a gear forced earlier.
Announced(gear, left, overlong) ==
  IF gear = DefaultGear
  THEN /\ cycles' = NoUses
       /\ forcedGear' = left
       /\ uses' = NoUses
  ELSE /\ cycles' = [cycles EXCEPT ![gear] = @ + 1]
       /\ forcedGear' = IF Stalled(gear, overlong) THEN {DefaultGear} ELSE left
       /\ uses' = [uses EXCEPT ![gear] = @ + 1]

-----------------------------------------------------------------------------
(* Routes                                                                   *)

Begins ==
  /\ route.stage = "idle"
  /\ routes < MaxRoutes
  /\ routes' = routes + 1
  /\ extras' = {}

DecidesDefault == decided' = Undecided

\* route, a gear was forced: it is returned once, no arbiter is asked
RouteForced ==
  /\ Begins
  /\ \E gear \in forcedGear :
       /\ Announced(gear, {}, FALSE)
       /\ decided' = [Undecided EXCEPT !.gear = gear, !.confidence = 100]
  /\ UNCHANGED <<emergency, historicalBuffer, route, lately>>

\* route, no arbiter is registered: the default gear, which is not announced
RouteUnarbitrated ==
  /\ Begins
  /\ forcedGear = {}
  /\ DecidesDefault
  /\ UNCHANGED <<forcedGear, emergency, historicalBuffer, cycles, route, lately, uses>>

\* route up to its first arbiter: only here do emergencies tick
RouteArbitrated ==
  /\ Begins
  /\ forcedGear = {}
  /\ \E n \in 1..MaxArbiters, dukkha \in BOOLEAN, sneha, mana \in Signals :
       /\ emergency' = Calmed(dukkha)
       /\ route' = [stage |-> "chain", left |-> n, late |-> FALSE,
                    base |-> Modulated(sneha, mana)
                               + IF Boosted(dukkha) THEN MaxBoost ELSE 0]
       /\ lately' = Kept(lately, [dukkha |-> dukkha, boosted |-> Boosted(dukkha)],
                         SustainedTicks + CooldownTicks)
  /\ UNCHANGED <<forcedGear, historicalBuffer, cycles, uses, decided>>

\* The chain's deadline passed, or no arbiter is left: the default gear.
ChainEnds ==
  /\ route.stage = "chain"
  /\ route.left = 0 \/ route.late
  /\ Announced(DefaultGear, forcedGear, FALSE)
  /\ DecidesDefault
  /\ route' = NoRoute
  /\ UNCHANGED <<emergency, historicalBuffer, extras, routes, lately>>

\* An arbiter abstains, throws or misses its timeout; time passed meanwhile,
\* perhaps past the deadline, which is looked at before the next one only.
ArbiterPasses ==
  /\ route.stage = "chain" /\ route.left > 0 /\ ~route.late
  /\ \E late \in BOOLEAN : route' = [route EXCEPT !.left = @ - 1, !.late = late]
  /\ UNCHANGED <<aggregatorVars, cycles, routes, lately, uses, decided>>

\* An arbiter answers.  Strictly above the threshold it decides; the raw
\* confidence is remembered before it is capped and audited.
ArbiterAnswers ==
  /\ route.stage = "chain" /\ route.left > 0 /\ ~route.late
  /\ \E gear \in Gears, c \in Confidences, risk \in Risks \cup {NoRisk}, q \in Qualities :
       IF c > Eased(Adjusted(route.base, risk), q)
       THEN /\ historicalBuffer' = Kept(historicalBuffer, c, MaxHistory)
            /\ route' = [stage |-> "audit", gear |-> gear, raw |-> c, risk |-> risk,
                         confidence |-> Least(c, Caps[gear])]
       ELSE /\ \E late \in BOOLEAN : route' = [route EXCEPT !.left = @ - 1, !.late = late]
            /\ UNCHANGED historicalBuffer
  /\ UNCHANGED <<forcedGear, emergency, extras, cycles, routes, lately, uses, decided>>

\* clampAuditDelta, and a destructive route gains nothing
Granted(risk, delta) ==
  LET clamped == Within(-MaxAuditDelta, delta, MaxAuditDelta)
  IN IF risk = Destructive /\ clamped > 0 THEN 0 ELSE clamped

\* The auditor answered; a delta of 0 stands for one that threw, that missed
\* its timeout or that is not there.
Decide ==
  /\ route.stage = "audit"
  /\ \E delta \in Deltas, overlong \in BOOLEAN :
       /\ decided' = [gear |-> route.gear, raw |-> route.raw, risk |-> route.risk,
                      confidence |-> route.confidence + Granted(route.risk, delta)]
       /\ Announced(route.gear, forcedGear, overlong)
  /\ route' = NoRoute
  /\ UNCHANGED <<emergency, historicalBuffer, extras, routes, lately>>

\* bus.on('audit:context_contribute'), at any time; the next route clears it
Contribute(k) ==
  /\ extras' = extras \cup {k}
  /\ extras' # extras
  /\ UNCHANGED <<forcedGear, emergency, historicalBuffer, cycles, route, routes, lately,
                 uses, decided>>

Next ==
  \/ RouteForced
  \/ RouteUnarbitrated
  \/ RouteArbitrated
  \/ ChainEnds
  \/ ArbiterPasses
  \/ ArbiterAnswers
  \/ Decide
  \/ \E k \in ExtraKeys : Contribute(k)

-----------------------------------------------------------------------------
TypeOK ==
  /\ forcedGear \subseteq {DefaultGear}
  /\ emergency \in [ticks : 0..(SustainedTicks - 1), cooldown : 0..CooldownTicks]
  /\ Len(historicalBuffer) <= MaxHistory
  /\ extras \subseteq ExtraKeys
  /\ route.stage \in {"idle", "chain", "audit"}
  /\ decided.gear \in Gears

\* Whatever other gears, failing arbiters and unannounced defaults come in
\* between, no gear decides more often than its limit between two
\* announcements of the default gear: the stall the watchdog sees during a
\* route is answered by the next one (agent-core.ts, bus.on('gear:switch')).
NoGearOutstays == \A g \in Gears \ {DefaultGear} : uses[g] <= MaxCycles[g]

\* The threshold is boosted exactly when the last SustainedTicks evaluated
\* routes all felt dukkha and no boost lies within the SustainedTicks +
\* CooldownTicks - 1 evaluated routes before: forced routes and routes without
\* arbiters do not count (checkVedanaEmergency, called by route).
EmergencyIsExact ==
  LET n == Len(lately)
      felt == n >= SustainedTicks /\ \A i \in (n - SustainedTicks + 1)..n : lately[i].dukkha
      earlier == \E i \in 1..(n - 1) : lately[i].boosted
  IN n > 0 => (lately[n].boosted <=> felt /\ ~earlier)

\* "Per-gear confidence caps ... value = max confidence" (gear-arbiter.ts):
\* the audit's delta is added after the cap.
CapsHold == decided.raw > 0 => decided.confidence <= Caps[decided.gear]
=============================================================================
