CONSTANTS
  Identifiers <- MCIdentifiers
  Keywords <- MCKeywords
  Literals <- MCLiterals
  Declarations <- MCDeclarations
SPECIFICATION Spec
INVARIANTS AcceptsDeclarations ParsedAsWritten TypesSurvive ScopeResolves WrittenParsesBack ExcludedIsHidden
PROPERTY ParsingEnds
CHECK_DEADLOCK FALSE
