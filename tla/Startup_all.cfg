\* Files with two MySQL instances and one Redis instance, written in many ways.
SPECIFICATION Spec
CONSTANTS
  Missing = Missing
  NULL = NULL
  Junk = Junk
  Files <- Written
  Servers <- Both
  LineMax = 12
  KeyMax = 4
INVARIANTS
  TypeOK
  PoolsAsConfigured
  RefusedForAReason
