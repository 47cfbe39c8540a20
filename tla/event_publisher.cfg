SPECIFICATION FairSpec
CONSTANTS
    Tasks = {1, 2}
    Clock = {1, 2}
    VersionBound = 3
    PageLimit = 2
    ControlCapacity = 1
    CommandBound = 1
    RestartBound = 1
INVARIANTS NothingLost PublishedInOrder CommandsAnswered
PROPERTIES OnlyTheFailedHeadIsArchived OutboxDrains
