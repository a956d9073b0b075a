\* Malformed rules of every kind: stops at the first that raises another exception
\* than the documented one.
SPECIFICATION Spec
CONSTANTS
    RuleBases <- Bases
    Contexts <- AllContexts
    NoType = NoType
    NotJson = NotJson
    NotANumber = NotANumber
    FALLBACK = FALLBACK
    None = None
INVARIANTS MalformedRaisesRuleFormatError
CHECK_DEADLOCK FALSE
