SPECIFICATION Spec
CONSTANTS
  Statements <- MCStatements
  OtherKeys <- MCOtherKeys
  MaxIdent = 7
  MaxKeyCount = 3
  MaxSuffix = 3
INVARIANTS ConstraintsKept RoundTrip NamesDistinct ReadWriteLayout
CHECK_DEADLOCK FALSE
