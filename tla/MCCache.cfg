CONSTANTS
  Config <- MCConfig
  Addresses <- MCAddresses
  CounterModulus = 2
SPECIFICATION Spec
INVARIANTS
  TypeOK
  RowsOK
PROPERTY
  ImplementsLRU
