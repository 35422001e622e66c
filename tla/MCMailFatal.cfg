SPECIFICATION Spec
CONSTANTS
  a = a
  b = b
  g = g
  Address <- MCAddress
  RuleLists <- MCRuleLists
  GlobalLists <- MCGlobalLists
  Methods <- MCMethods
INVARIANT
  MailErrorsAreNotFatal
CHECK_DEADLOCK FALSE
