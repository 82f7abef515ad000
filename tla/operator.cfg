SPECIFICATION FairSpec
CONSTANTS
  server = server  local = local  broken = broken
  None = None
  Names = {1, 2}
  Servers = {server}
  Images = {local, broken}
  Broken = {broken}
  DefaultImage = local
  MaxChanges = 3
  MaxFaults = 1
PROPERTIES ForeignUntouched Converges HealthSettles
