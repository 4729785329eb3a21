SPECIFICATION FairSpec
CONSTANTS
  k1 = k1
  k2 = k2
  k3 = k3
  Key <- MCKey
  Text <- MCText
  Hash <- MCHash
  Value = {Nil, True}
  NIL_VAL = Nil
  TRUE_VAL = True
  NULL = NULL
  InitialCapacity = 2
  MaxCapacity = 8
INVARIANTS TypeOK ProbesEnd NoLostKey PowerOfTwoCapacity
PROPERTIES NoDanglingKey SetReturns ImplementsDictionary
