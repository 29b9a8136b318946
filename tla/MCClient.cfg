SPECIFICATION FairSpec
CONSTANTS
    Id = Id
    NoId = NoId
CHECK_DEADLOCK FALSE
INVARIANT TypeOK
INVARIANT OutcomeIsTrue
INVARIANT NoHandlerAfterDelete
PROPERTY ClientExits
