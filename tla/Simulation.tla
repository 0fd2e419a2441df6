------------------------------- MODULE Simulation -------------------------------
(***************************************************************************)
(* One game of a runner: the turns of app::do_simulation                    *)
(* (runner_app_simulation.cpp) over marslander::simulate (marslander.cpp),  *)
(* and the rating of its outcome.  The network's answer is any output in    *)
(* its range (game_adapter::get_output, nn.h).  Positions are whole metres; *)
(* velocities and ratings are in thousandths; tilts are multiples of 15.    *)
(***************************************************************************)
EXTENDS Integers, Sequences

CONSTANTS
  zone_width, zone_height,
  surface_points_of_case,   \* state::surface
  safe_area,                \* indices of the ends of the flat, from 1
  turn_zero,                \* the set of first turns played
  outputs,                  \* the network's answers considered: [thrust, tilt]
  game_steps                \* steps_limit

Points == [x : Int, y : Int]
Landers == [x : Int, y : Int, vx : Int, vy : Int, fuel : Nat, thrust : Int, tilt : -90 .. 90]

\* A case is one that LandingCase makes (CaseIsPlayable); the altitude of the
\* start and its fuel divide the rating.
ASSUME SimulationAssumption ==
  /\ zone_width \in Nat \ {0} /\ game_steps \in Nat \ {0}
  /\ surface_points_of_case \in Seq(Points)
  /\ \A m, n \in DOMAIN surface_points_of_case :
       m < n => surface_points_of_case[m].x < surface_points_of_case[n].x
  /\ safe_area.start \in 1 .. Len(surface_points_of_case) - 1
  /\ safe_area.end = safe_area.start + 1
  /\ surface_points_of_case[safe_area.start].y = surface_points_of_case[safe_area.end].y
  /\ turn_zero \subseteq Landers
  /\ \A t \in turn_zero : t.fuel > 0 /\ t.y > surface_points_of_case[safe_area.start].y
  /\ \A out \in outputs : out.thrust \in Int /\ out.tilt \in Int

VARIABLES
  game,     \* turn zero, the turns left, the outcome, and the position before
  lander    \* position, velocity, fuel, thrust and tilt of the state

simulationVars == <<game, lander>>

Clamp(n, lo, hi) == IF n < lo THEN lo ELSE IF n > hi THEN hi ELSE n
Magnitude(n) == IF n < 0 THEN -n ELSE n
\* inner_round: to the nearest, halves away from zero.  d is positive.
InnerRound(n, d) == IF n < 0 THEN -((-2 * n + d) \div (2 * d)) ELSE (2 * n + d) \div (2 * d)

ground == surface_points_of_case
flat_start == ground[safe_area.start].x
flat_end == ground[safe_area.end].x
flat_alt == ground[safe_area.start].y

Sines == <<0, 259, 500, 707, 866, 966, 1000>>
Sine(tilt) == (IF tilt < 0 THEN -1 ELSE 1) * Sines[1 + Magnitude(tilt) \div 15]
Cosine(tilt) == Sines[7 - Magnitude(tilt) \div 15]
mars_gravity_acc == -3711

\* apply_state_changes
Thrust(l, out) == Clamp(l.thrust + Clamp(out.thrust - l.thrust, -1, 1), 0, 4)
Burn(l, out) ==
  IF l.fuel <= Thrust(l, out) THEN [fuel |-> 0, thrust |-> 0]
  ELSE [fuel |-> l.fuel - Thrust(l, out), thrust |-> Thrust(l, out)]
Moved(l, out) ==
  LET burn == Burn(l, out)
      tilt == Clamp(l.tilt + Clamp(out.tilt - l.tilt, -15, 15), -90, 90)
      aX == -Sine(tilt) * burn.thrust
      aY == Cosine(tilt) * burn.thrust + mars_gravity_acc
  IN  [fuel |-> burn.fuel, thrust |-> burn.thrust, tilt |-> tilt,
       x |-> l.x + InnerRound(2 * l.vx + aX, 2000),
       y |-> l.y + InnerRound(2 * l.vy + aY, 2000),
       vx |-> l.vx + aX, vy |-> l.vy + aY]

\* surface_level: the segment whose level counts at x.
Segment(x) ==
  IF x >= ground[Len(ground)].x THEN Len(ground) - 1
  ELSE IF x <= ground[1].x THEN 1
  ELSE CHOOSE n \in 1 .. Len(ground) - 1 : ground[n].x <= x /\ x < ground[n + 1].x
\* position.y > h, without the division.
IsAerial(l) ==
  LET lo == ground[Segment(l.x)]  hi == ground[Segment(l.x) + 1]
      x == Clamp(l.x, lo.x, hi.x)
  IN  (l.y - lo.y) * (hi.x - lo.x) > (x - lo.x) * (hi.y - lo.y)

WithinLimits(l) ==
  /\ l.tilt = 0
  /\ flat_start <= l.x /\ l.x < flat_end
  /\ Magnitude(l.vx) <= 20000 /\ l.vy >= -40000 /\ l.vy < 0
\* "Landing area surface is close and is approached from above": the second
\* comparison takes the horizontal velocity.
IsClose(l) == 2000 * flat_alt <= 2000 * l.y - l.vy /\ 2000 * l.y + l.vx <= 2000 * flat_alt

Outcome(l) ==
  CASE l.x < 0 \/ l.x >= zone_width \/ l.y < 0 \/ l.y >= zone_height -> "Lost"
    [] OTHER -> IF IsAerial(l) THEN "Aerial"
                ELSE IF WithinLimits(l) /\ IsClose(l) THEN "Landed" ELSE "Crashed"

\* Mutant of Touchdown: the ship stays where the step ended.
Touchdown_StepEnd(p, q) == q
\* intersect, of the way from p to q and the segment under q.  A level step (vy
\* < 0 may still round to none) makes it 0 / 0, which lround turns into LONG_MIN
\* and the cast to 32 bits into 0.
Touchdown(p, q) ==
  LET a == ground[Segment(q.x)]  b == ground[Segment(q.x) + 1]
      a1 == p.y - q.y  a2 == q.x - p.x  a3 == p.x * q.y - q.x * p.y
      b1 == a.y - b.y  b2 == b.x - a.x  b3 == a.x * b.y - b.x * a.y
      cz == a1 * b2 - b1 * a2
      cx == a2 * b3 - b2 * a3
      cy == b1 * a3 - a1 * b3
  IN  IF cz = 0 THEN [x |-> 0, y |-> 0]
      ELSE LET up == IF cz < 0 THEN -1 ELSE 1
           IN  [x |-> InnerRound(up * cx, up * cz), y |-> InnerRound(up * cy, up * cz)]

\* eval_outcome_rating, in thousandths; the smaller the better.
Rating(steps, o, l, t0) ==
  LET twice == Magnitude(2 * l.x - flat_start - flat_end)
      spent == t0.fuel - l.fuel
  IN  CASE o = "Landed" ->
             (10000 * steps) \div game_steps + (60000 * spent) \div t0.fuel
               + (30000 * twice) \div (flat_end - flat_start)
        [] o = "Crashed" ->
             100000 + (20000 * steps) \div game_steps + (20000 * spent) \div t0.fuel
               + (35000 * twice) \div (2 * zone_width)
               + (25000 * Magnitude(l.y - flat_alt)) \div (t0.y - flat_alt)
        [] OTHER -> 200000 + (100000 * steps) \div game_steps

SimulationInit ==
  \E t \in turn_zero :
    /\ lander = t
    /\ game = [zero |-> t, steps |-> game_steps, o |-> "Aerial", before |-> t, rating |-> -1]

\* One pass of the loop: get_output and simulate.
Simulate(out) ==
  /\ game.o = "Aerial" /\ game.steps > 0
  /\ LET l == Moved(lander, out)
         o == Outcome(l)
         down == Touchdown(lander, l)
     IN  /\ lander' = IF o = "Landed" THEN [l EXCEPT !.x = down.x, !.y = down.y] ELSE l
         /\ game' = [game EXCEPT !.steps = @ - 1, !.o = o, !.before = lander]

\* The loop is over: outcome->set_rating.
Rate ==
  /\ game.o # "Aerial" \/ game.steps = 0
  /\ game.rating < 0
  /\ game' = [game EXCEPT !.rating = Rating(game.steps, game.o, lander, game.zero)]
  /\ UNCHANGED lander

SimulationNext == (\E out \in outputs : Simulate(out)) \/ Rate
SimulationSpec == SimulationInit /\ [][SimulationNext]_simulationVars

-----------------------------------------------------------------------------
\* A landing that came from above the flat puts the ship down on it, at its
\* altitude and between its ends, and is then rated at most 100, while every
\* crash is rated at least 100: with whatever fuel and turns are left, no such
\* landing ranks behind a crash of the same case (simulate, eval_outcome_rating).
LandingsRankFirst ==
  /\ (game.o = "Landed" /\ game.before.y > flat_alt /\ game.before.x \in flat_start .. flat_end) =>
       lander.y = flat_alt /\ lander.x \in flat_start .. flat_end /\ game.rating <= 100000
  /\ game.o = "Crashed" /\ game.rating >= 0 => game.rating >= 100000

\* "For a landing to be successful": flat ground, no tilt, at most 40 m/s down
\* and 20 m/s sideways.  A ship that comes down through the flat like this, from
\* above and by no more than half of its speed, has landed.
LegalTouchdownLands ==
  (/\ game.o \in {"Crashed", "Landed"} /\ WithinLimits(lander)
   /\ game.before.y > flat_alt /\ game.before.x \in flat_start .. flat_end
   /\ Magnitude(2000 * (flat_alt - lander.y)) <= -lander.vy) => game.o = "Landed"
=============================================================================
