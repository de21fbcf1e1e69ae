SPECIFICATION Spec
CONSTANTS
  Client = {c1, c2}
  Backends = {"memory", "redis", "memcached"}
  Width = 2
  Values <- SomeValues
  Amounts = {1, 3}
SYMMETRY Symmetry
INVARIANTS
  RepliesAreHonest
  UndisturbedMeetsContract
PROPERTIES
  IncrementAdds
