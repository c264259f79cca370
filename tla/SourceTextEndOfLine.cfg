CONSTANT Files <- MCFiles
SPECIFICATION Spec
INVARIANT EndOfLineDocuments
CHECK_DEADLOCK FALSE
