CONSTANTS
    Itfs = {composite}
    composite = composite
    Empty = Empty
    MaxResets = 2
    NkroBits = 120
SPECIFICATION FairLoopSpec
INVARIANTS DownMeansReleaseFollows GroupsAreWhole
PROPERTIES TypesInOrder KeysComeUp SaysWhy
