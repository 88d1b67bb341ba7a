CONSTANTS
  Names = {"example.com"}
  Addresses = {"192.0.2.1"}
  MaxSteps = 3
  MaxPieces = 5
SPECIFICATION ReadersSpec
INVARIANT OcspStatusIsRead
CHECK_DEADLOCK FALSE
