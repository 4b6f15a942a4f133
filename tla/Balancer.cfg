CONSTANTS
  Addresses = {a1, a2}
  Named = {a2}
  Callers = {c1, c2}
  HashCode = 3
  MaxChanges = 3
  MaxCalls = 3
SPECIFICATION FairSpec
INVARIANT TypeOK
PROPERTIES Sticky AddressesFollow
CHECK_DEADLOCK FALSE
