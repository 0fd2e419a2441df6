----------------------------- MODULE MCSimulation -----------------------------
EXTENDS Simulation

\* A slope, the flat, and a drop behind it.
MCGround == <<[x |-> 0, y |-> 400], [x |-> 100, y |-> 100], [x |-> 200, y |-> 100], [x |-> 300, y |-> 60]>>
MCArea == [start |-> 2, end |-> 3]
MCTurnZero ==
  [x : {90, 110, 185}, y : {110, 150}, vx : {-15000, 0, 15000}, vy : {-30000, -10000},
   fuel : {3, 50}, thrust : {3}, tilt : {0, 15}]
MCOutputs == [thrust : {0, 4}, tilt : {-15, 0, 15}]
===============================================================================
