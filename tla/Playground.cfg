SPECIFICATION FairSpec
CONSTANTS
    MaxRequests = 2
    MaxUses = 1
    Script <- TwoLetters
    Faults = {"late"}
INVARIANTS
    TypeOK OwnText NothingStuck ReceivedShown
PROPERTIES
    FinalStays AnswersEnd SavedInTheEnd
CHECK_DEADLOCK FALSE
