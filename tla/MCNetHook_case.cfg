SPECIFICATION Spec
CONSTANTS
  Text = {"", "bad", "foreign", "0", "100", "off", "on", "5", "50"}
  r1 = r1
  r2 = r2
  Req = {r1}
  Speed = {"50"}
  Written <- OldMetadata
  Devices <- One
  Lower = FALSE
  Budget <- NoAdversity
INVARIANT SpeedSetForAllDevices
