\* Three parsers and an application, flags that read as anything until they are
\* written, soft and hard finalize.
SPECIFICATION Spec
CONSTANTS
  Parsers = {p1, p2, p3}
  Application = app
  Unowned = none
INVARIANTS
  NoRuntimeWithoutParser
PROPERTIES
  OnlyOwnerFinalizes
