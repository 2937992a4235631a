\* The program ends.
SPECIFICATION Spec
CONSTANTS
    Parts = {1, 2, 3}
    Ptrs = {1, 2, 3}
    Sizes = {0, 1, 2}
    MaxCalls = 5
INVARIANTS ListMatchesLibrary BytesBalance LibraryShielded
PROPERTIES ReportsTruthful
CHECK_DEADLOCK FALSE
