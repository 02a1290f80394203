\* Every protocol; two or three sends and two trains received.
SPECIFICATION Spec
CONSTANTS
  Protocols = {"arctech_switch", "arctech_screen", "arctech_dimmer", "arctech_switch_old",
               "arctech_screen_old", "ehome", "selectremote", "heitech", "silvercrest", "pollin",
               "mumbi", "elro_400_switch", "elro_800_switch", "impuls", "rsl366", "cleverwatts",
               "daycom", "quigg_gt7000", "quigg_screen", "conrad_rsl_switch", "x10",
               "techlico_switch", "beamish_switch", "logilink_switch", "rc101", "clarus",
               "elro_300_switch", "eurodomest_switch", "quigg_gt9000"}
  Requests <- MCRequests
  GarbledPulses <- MCGarbledPulses
  NoiseLengths = {50, 512}
  BufferLength = 150
  SendLimit = 0
  MaxSends = 3
  MaxReceives = 2
INVARIANTS RoundTrip GarbleNoticed CodeComplete
CONSTRAINT Apart
CHECK_DEADLOCK FALSE
