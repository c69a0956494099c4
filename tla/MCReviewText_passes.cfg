SPECIFICATION Spec
CONSTANTS
    Paths <- SomePaths
    FirstWord <- Words
    Starts = {5}
    NoStart = NoStart
    NoFile = NoFile
    Patterns <- SomePatterns
    Lower <- LowerCase
    Matching <- Regexes
    Lockfiles <- Locks
    DocFiles <- Docs
    Rules <- TwoRules
    FilePaths = {"f", "g"}
    Numbers = {7}
    NoPath = NoPath
    NoNumber = NoNumber
    MaxDiff = 9
    MaxAnswer = 5
INVARIANTS
    FilterKeepsWholeFiles
    TrivialHidesExactly
    MatchesAreAddedLines
    MatchLineIsOneTooHigh
    CommentsComeFromBlocks
    SummaryIsItsSections
CHECK_DEADLOCK FALSE
