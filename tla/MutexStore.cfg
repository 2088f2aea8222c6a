\* One store that runs empty, two customers, whose draws exceed what is left.
SPECIFICATION FairSpec
CONSTANTS
  s1 = s1
  a = a
  b = b
  Nobody = Nobody
  Loader = Loader
  Stores = {s1}
  Customers = {a, b}
  Stock = {0, 1}
  Demand = {3}
  Draw = {0, 2}
  StoreCap = 2
INVARIANTS
  NonNegative
  NoLostUpdate
  ExactlyServed
PROPERTY
  Terminates
