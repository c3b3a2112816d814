SPECIFICATION Spec
CONSTANTS
  Text = {"", "bad", "foreign", "0", "100", "off", "on", "5", "50"}
  r1 = r1
  r2 = r2
  Req = {r1, r2}
  Speed = {"50"}
  Written <- SomeMetadata
  Devices <- Two
  Lower = TRUE
  Budget <- AnyAdversity
INVARIANT AskedSettingsApplied
PROPERTY StartsEnd
ACTION_CONSTRAINT Once
