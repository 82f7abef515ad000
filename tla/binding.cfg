SPECIFICATION FairSpec
CONSTANTS
  key1 = key1  key2 = key2  model = model  goroutine = goroutine
  None = None  NoSecret = NoSecret
  Keys = {key1, key2}
  EnvKey = None
  Models = {model}
  Bindings <- SomeBindings
  Lookups = {goroutine}
  MaxChanges = 3
  MaxFaults = 1
INVARIANT LookupsKeepUp
PROPERTIES KeptUntilDeleted ServesTheBinding
