CONSTANTS
  Accounts = {alice, bob, carol}
  ZeroAddress = ZeroAddress
  InitialAdmin = alice
  InitialSupply = 1
  Amounts = {0, 1, 2}
  MaxUint = 4
SPECIFICATION Spec
INVARIANTS
  TypeOK
  SupplyIsTheSum
PROPERTIES
  CreditsDoNotMove
  NoMinterNoMoreCredits
CHECK_DEADLOCK FALSE
