CONSTANTS
  Identifiers <- MCIdentifiers
  Keywords <- MCKeywords
  Literals <- MCLiterals
  Declarations <- MCDeclarations
SPECIFICATION Spec
INVARIANT ExplicitKept
CHECK_DEADLOCK FALSE
