SPECIFICATION RegistrySpec
CONSTANTS
  DeviceIds = {d1, d2}
  Beats = {b1, b2}
  Lists = {l1}
  Backends = {"disk", "s3"}
  MaxTime = 2
SYMMETRY RegistrySymmetry
INVARIANTS
  CredentialsHold
  LastSeenKept
