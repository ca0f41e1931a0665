\* round robin, held until the request drops (Arbiter2_wb.v with ARB_TYPE_ROUND_ROBIN)
SPECIFICATION FairSpec
CONSTANTS
  PORTS = 4
  ROUND_ROBIN = TRUE
  BLOCK = TRUE
  BLOCK_ACK = FALSE
  LSB_HIGH = FALSE
INVARIANTS
  TypeOK
  BoundedBypass
PROPERTIES
  GrantsRequester
  RequestServed
