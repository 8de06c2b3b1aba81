CONSTANTS
    PageSize = 32
    HeapStart = 64
    HeapEnd = 304
    Sizes <- MCSizes
    MonitorOn = TRUE
SPECIFICATION Spec
INVARIANTS BlocksAreMarked BooksAreMarked
PROPERTIES TrimsSpare
CHECK_DEADLOCK FALSE
