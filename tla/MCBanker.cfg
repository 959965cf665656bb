CONSTANTS
  NUMBER_OF_CUSTOMERS = 3
  NUMBER_OF_RESOURCES = 2
  MaxUnits = 2
  MaxClaim = 2
SPECIFICATION Spec
INVARIANTS UnitsConserved AlwaysSafe RefusedIffUnsafe
