------------------------------ MODULE LandingCase ------------------------------
(***************************************************************************)
(* How a landing case is made up at random (landing_case_randomize.h): the  *)
(* flat, the surface point by point around it, the start above the surface  *)
(* and the first speed.  The sizes of the zone are CONSTANTS; every draw of *)
(* an integer or a real is any of its values.                               *)
(***************************************************************************)
EXTENDS Integers, Sequences

CONSTANTS
  zone_x_max,
  flat_widths,              \* flat_width_min up to flat_width_max, by steps
  surface_points,           \* the numbers of points that may be drawn
  surface_elevation_max,
  flat_elevations,
  Heights,                  \* the draws of a height, in percent
  horz_padding,
  tie_break,                \* after how many starts drawn in vain: 16 in the code
  altitudes,                \* of the start
  tilt_max,
  speeds                    \* and 0, for the draw that leaves it without (bernoulli)

ASSUME LandingCaseAssumption ==
  /\ zone_x_max \in Nat \ {0}
  /\ \A w \in flat_widths : w \in 1 .. zone_x_max
  /\ \A n \in surface_points : n \in Nat /\ n > 2 /\ n - 1 <= zone_x_max
  /\ tie_break \in Nat /\ speeds \subseteq Nat

VARIABLES
  make,     \* flat_start, flat_end, flat_elevation, and where fill_surface is
  surface,  \* the points so far
  case      \* the rest of the landing_case

caseVars == <<make, surface, case>>

Point(x, y) == [x |-> x, y |-> y]
NoCase == [start |-> -1, end |-> -1, x |-> 0, y |-> 0, tilt |-> 0, vx |-> 0]
CaseInit == make = [state |-> "none"] /\ surface = <<>> /\ case = NoCase

\* get_flat: any width, any centre that keeps the flat inside the zone.
GetFlat(width, cx, elevation, n) ==
  /\ make.state = "none"
  /\ LET ofs == (width \div 2) + (width % 2)
         start == IF cx <= zone_x_max \div 2 THEN cx - ofs ELSE cx + ofs - width
     IN  /\ cx \in ofs .. zone_x_max - ofs
         /\ make' = [state |-> "start", i |-> 0, imax |-> n - 1, flat_start |-> start,
                     flat_end |-> start + width, flat_elevation |-> elevation, steps |-> 0]
  /\ UNCHANGED <<surface, case>>

\* The abscissa of point i: near step * i, by less than half a step.
RoundedDiv(n, d) == (2 * n + d) \div (2 * d)
Noise == make.i > 0 /\ make.i < make.imax /\ zone_x_max > 2 * make.imax
Abscissas ==
  LET d == 2 * make.imax
      mid == 2 * zone_x_max * make.i
      by == IF Noise THEN zone_x_max - d ELSE 0
  IN  RoundedDiv(mid - by, d) .. RoundedDiv(mid + by, d)

\* elevation_curve: 1 - 1/v^2, where v grows from 1 at t0 to 3.2 at t1.
Curved(t0, t1, x) ==
  LET num == 22 * (x - t0) + 10 * (t1 - t0)
      den == 10 * (t1 - t0)
  IN  RoundedDiv(surface_elevation_max * (num * num - den * den), num * num)
Ground(x, percent) ==
  Point(x, (percent * (IF x < make.flat_start THEN Curved(make.flat_start, 0, x)
                       ELSE IF x > make.flat_end THEN Curved(make.flat_start, zone_x_max, x)
                       ELSE 0)) \div 100)

\* Mutant of Turn: the last point of the zone is not kept behind the flat.
Turn_LosesLast(x, percent) ==
  LET from == Point(make.flat_start, make.flat_elevation)
      to == Point(make.flat_end, make.flat_elevation)
      last == make.i = make.imax
  IN  CASE make.state = "start" /\ x >= make.flat_start ->
             [state |-> "flat", points |-> IF last THEN <<from, to>> ELSE <<from>>]
        [] make.state = "flat" /\ x >= make.flat_end -> [state |-> "end", points |-> <<to>>]
        [] make.state = "flat" /\ x < make.flat_end -> [state |-> "flat", points |-> <<>>]
        [] OTHER -> [state |-> make.state, points |-> <<Ground(x, percent)>>]
\* fill_surface, one turn: the first point at or behind the beginning of the
\* flat is replaced by it, the first one at or behind its end by that; what
\* lies between is dropped, and the last point of the zone is kept behind both.
Turn(x, percent) ==
  LET from == Point(make.flat_start, make.flat_elevation)
      to == Point(make.flat_end, make.flat_elevation)
      last == make.i = make.imax
      behind == IF last /\ x > make.flat_end THEN <<Ground(x, percent)>> ELSE <<>>
  IN  CASE make.state = "start" /\ x >= make.flat_start ->
             [state |-> "flat", points |-> IF last THEN <<from, to>> \o behind ELSE <<from>>]
        [] make.state = "flat" /\ x >= make.flat_end -> [state |-> "end", points |-> <<to>> \o behind]
        [] make.state = "flat" /\ x < make.flat_end -> [state |-> "flat", points |-> <<>>]
        [] OTHER -> [state |-> make.state, points |-> <<Ground(x, percent)>>]

\* safe_area is set where the two points of the flat are added.
IndexOf(p, points) == {Len(surface) + n - 1 : n \in {k \in DOMAIN points : points[k] = p}}
SetWhere(old, x, points) ==
  LET S == IndexOf(Point(x, make.flat_elevation), points)
  IN  IF old >= 0 \/ S = {} THEN old ELSE CHOOSE n \in S : TRUE
FillSurface(x, percent) ==
  /\ make.state \in {"start", "flat", "end"} /\ make.i <= make.imax
  /\ x \in Abscissas
  /\ LET t == Turn(x, percent) IN
     /\ surface' = surface \o t.points
     /\ make' = [make EXCEPT !.state = t.state, !.i = @ + 1]
     /\ case' = [case EXCEPT !.start = SetWhere(@, make.flat_start, t.points),
                             !.end = SetWhere(@, make.flat_end, t.points)]

\* y > surface_level(x), on the segment of the last point not behind x.
Above(x, y) ==
  \E n \in 1 .. Len(surface) - 1 :
    LET lo == surface[n]  hi == surface[n + 1] IN
    /\ lo.x <= x /\ x < hi.x
    /\ (y - lo.y) * (hi.x - lo.x) > (x - lo.x) * (hi.y - lo.y)

\* fill_position draws until the start is above the surface, after tie_break
\* times in vain above the flat; then tilt and velocity.  For the last abscissa
\* of the zone surface_level reads behind the surface: it may be accepted too.
Sign(n) == IF n > 0 THEN 1 ELSE IF n < 0 THEN -1 ELSE 0
Towards(x) == Sign((make.flat_start + make.flat_end) \div 2 - x)
Starts ==
  IF make.steps >= tie_break THEN make.flat_start .. make.flat_end
  ELSE horz_padding .. zone_x_max - horz_padding
FillPosition(x, y, tilt, speed) ==
  /\ make.state \in {"start", "flat", "end"} /\ make.i > make.imax
  /\ x \in Starts
  /\ \/ /\ Above(x, y) \/ x = zone_x_max
        /\ make' = [make EXCEPT !.state = "done"]
        /\ case' = [case EXCEPT !.x = x, !.y = y, !.tilt = tilt,
             !.vx = IF x \in make.flat_start .. make.flat_end THEN 0 ELSE Towards(x) * speed]
     \/ /\ ~Above(x, y)
        /\ make' = [make EXCEPT !.steps = IF @ < tie_break THEN @ + 1 ELSE @]
        /\ UNCHANGED case
  /\ UNCHANGED surface

CaseNext ==
  \/ \E w \in flat_widths, cx \in 0 .. zone_x_max, e \in flat_elevations, n \in surface_points :
       GetFlat(w, cx, e, n)
  \/ \E x \in 0 .. zone_x_max, p \in Heights : FillSurface(x, p)
  \/ \E x \in 0 .. zone_x_max, y \in altitudes,
        tilt \in {-tilt_max, 0, tilt_max}, v \in speeds : FillPosition(x, y, tilt, v)
CaseSpec == CaseInit /\ [][CaseNext]_caseVars

-----------------------------------------------------------------------------
\* A landing case can be played: whatever the noise and wherever the flat, the
\* surface runs from one end of the zone to the other without turning back
\* (surface_level searches it by abscissa and divides by the difference), the
\* safe area names the two ends of one flat segment of an allowed width, the
\* ship starts above the ground and never flies away from the flat.
CaseIsPlayable ==
  make.state = "done" =>
    /\ surface[1].x = 0 /\ surface[Len(surface)].x = zone_x_max
    /\ \A n \in 1 .. Len(surface) - 1 : surface[n].x < surface[n + 1].x
    /\ case.start >= 0 /\ case.end = case.start + 1
    /\ surface[case.end + 1].x - surface[case.start + 1].x \in flat_widths
    /\ surface[case.start + 1].y = surface[case.end + 1].y
    /\ case.x < zone_x_max => Above(case.x, case.y)
    /\ case.vx > 0 => case.x < make.flat_start
    /\ case.vx < 0 => case.x > make.flat_end
=============================================================================
