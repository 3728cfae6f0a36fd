SPECIFICATION WalkSpec
CONSTANTS
    NoPage = 0
    First = 1
    MaxWalk = 5
    PageIds <- MCPageIds
CHECK_DEADLOCK FALSE
INVARIANT
    AnswersWhatTheFileHolds
PROPERTY
    OpenEnds
