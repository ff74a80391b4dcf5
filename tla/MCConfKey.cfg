SPECIFICATION ConfSpec
CONSTANTS
  Unset = Unset
  Around <- Nested
  Location = {"l1", "l2"}
  Http = "http"
  File <- TwoPem
  Content <- TwoPemContent
  Menu = {"alg", "key"}
  MaxDirectives = 3
CHECK_DEADLOCK FALSE
INVARIANT KeyIsOwn
