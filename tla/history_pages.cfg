SPECIFICATION Spec
CONSTANTS
    Ids = {2, 9, 10}
    IdWidth = 3
    CategoryOf <- MCCategoryOf
    NoCategory = "none"
    Queries <- MCQueries
    Limit = 0
    Clock = {0, 1, 2}
INVARIANTS WalkComplete PagesAgree ReadyOrAwaited
