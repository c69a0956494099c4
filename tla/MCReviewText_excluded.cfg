SPECIFICATION Spec
CONSTANTS
    Paths <- SomePaths
    FirstWord <- Words
    Starts = {5}
    NoStart = NoStart
    NoFile = NoFile
    Patterns <- SomePatterns
    Lower <- LowerCase
    Matching <- Regexes
    Lockfiles <- Locks
    DocFiles <- Docs
    Rules <- TwoRules
    FilePaths = {"f", "g"}
    Numbers = {7}
    NoPath = NoPath
    NoNumber = NoNumber
    MaxDiff = 4
    MaxAnswer = 0
INVARIANTS
    SkipsExcludedFiles
CHECK_DEADLOCK FALSE
