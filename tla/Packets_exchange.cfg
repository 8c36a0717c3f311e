\* Sixty requests; on each leg a packet may be damaged or built by another.
SPECIFICATION Spec
CONSTANTS
  Requests <- MCRequests
  Offsets = {1, 16, 128, 255}
  MaxTotal = 31
INVARIANTS
  TypeOK
  AcceptsOnlyItsReply
  UnchangedIsAccepted
  ParsersAgree
  ChecksumIsOnesComplement
CHECK_DEADLOCK FALSE
