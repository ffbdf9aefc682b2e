\* Every provider, three events, two deliveries under way.
CONSTANTS
  Hooked <- AllHooks
  Events <- MCEvents
  Attribute <- MCAttribute
  MaxBatch = 2
  MaxWire = 2
SPECIFICATION Spec
INVARIANTS TypeOK EventsAccounted HandedOnce
CHECK_DEADLOCK FALSE
