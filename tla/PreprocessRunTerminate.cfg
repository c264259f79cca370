SPECIFICATION Spec
CONSTANTS
    newline = newline
    missing = missing
    odd = odd
    other = other
    guard = guard
    macro = macro
    code = code
    Token <- MCToken
    PipeCapacity = 2
    BufferSize = 2
    MacroProgram <- MCMacroProgram
    PreprocessProgram <- MCPreprocessProgram
    NewLine <- newline
    Missing <- missing
    Odd <- odd
    Guard <- guard
    UndefGuard = UndefGuard
    NoFile = NoFile
INVARIANT ErrorsAreExceptions
CHECK_DEADLOCK FALSE
