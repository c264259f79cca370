CONSTANT Files <- MCFiles
SPECIFICATION Spec
INVARIANTS LinesPreserved CommentsKept CommentsDocument IncludesKept FileInOrder
CHECK_DEADLOCK FALSE
