SPECIFICATION EnrSpec
CONSTANTS
  Responses <- MCResponses
  Assertions <- MCAssertions
  Require = {"none", "packed"}
  Int32 = 1024
  Int64 = 4096
  Absent = Absent
CHECK_DEADLOCK FALSE
INVARIANT RequireIsMet
