CONSTANTS
  zone_width = 300
  zone_height = 400
  surface_points_of_case <- MCGround
  safe_area <- MCArea
  turn_zero <- MCTurnZero
  outputs <- MCOutputs
  game_steps = 4
SPECIFICATION SimulationSpec
INVARIANTS LegalTouchdownLands
CHECK_DEADLOCK FALSE
