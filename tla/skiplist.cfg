SPECIFICATION Spec
CONSTANTS
    Members <- MCMembers
    Scores <- MCScores
    ZSKIPLIST_MAXLEVEL = 3
INVARIANTS
    SkipListTypeOK
    Linked
    SpansExact
    QueriesExact
    TagBatchExact
PROPERTIES
    IsOrderedSet
