SPECIFICATION Spec
CONSTANTS
    Trees <- MCTrees
    Contents <- MCContents
    Calls <- MCCalls
    Names = {"a", "b", "c", "d", "e", "g", ".h", ".f"}
    HiddenNames = {".h", ".f"}
    MaxMatches = 3
    MaxPerFile = 2
    MaxBytes = 4
    MaxSnippet = 3
    Overhead = 0
    MaxEntries = 4
    MaxDepth = 1
    MaxListing = 4
    MaxText = 5
    MaxBinary = 5
    ChunkSize = 2
    MaxChanges = 2
INVARIANTS
    TypeOK
    SearchAllOrFlagged
    MatchesAreReal
    ListingIsTheTree
    ReadAllOrFlagged
CHECK_DEADLOCK FALSE
