SPECIFICATION Spec
CONSTANTS
  Fields = 3
INVARIANT ReportedInOrder
