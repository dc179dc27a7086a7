CONSTANTS
  Keys <- SomeKeys
  Bools = {"true"}
  Vals = {1, 2}
  None = None
  Hash <- SomeHashes
  FirstCapacity = 2
SPECIFICATION Spec
INVARIANTS TypeOK LoadIsKept EveryKeyIsFound IInv
PROPERTY ImplementsDictionary
