CONSTANTS
    Session = {s1}
    Question <- MCQuestion
    Metadata <- MCMetadata
    MaxPresses = 2
SPECIFICATION Spec
INVARIANTS SavedOnce AnswersFromLatest SorryIsTrue
CHECK_DEADLOCK FALSE
