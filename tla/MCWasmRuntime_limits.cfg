SPECIFICATION Spec
CONSTANTS
  ModuleIds = {m1, m2}
  Ids = {i1, i2, i3}
  Binaries <- MCBinaries
  Config <- MCConfig
  MaxSeconds = 1
  MaxCreated = 4
  None = None
INVARIANTS TypeOK InstancesCounted InstanceBound FuelReported
