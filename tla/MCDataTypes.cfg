SPECIFICATION Spec
CONSTANTS
  DefinedFunctions <- MCFunctions
  Statements <- MCStatements
INVARIANTS OperandsAgree AssertsHold TraversalsAgree
CHECK_DEADLOCK FALSE
