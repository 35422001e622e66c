SPECIFICATION ParserSpec
CONSTANTS
  Var <- MCVar
  Name <- MCName
  Rule <- MCRule
  Stop <- MCStop
  Scope <- MCScope
  Assignment <- MCAssignment
  Predefined <- MCPredefined
  MaxStatements = 5
INVARIANTS
  ParserTypeOK
  SpecsFollowText
  NearestPointDecides
  RefusedForAFault
CHECK_DEADLOCK FALSE
