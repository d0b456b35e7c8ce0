\* Marking and snapshots of one region, one translation at a time.
SPECIFICATION Spec
CONSTANTS
    Word = 32
    Bases = {0, 4}
    Sizes = {3, 4, 8}
    PgSizes = {1, 2, 4}
    Threads = {t1, t2}
    CharBit = 2
    Serial = TRUE
    NULL = NULL
INVARIANTS
    TypeOK
    AlignedWritesLogged
    MarksInsideBitmapAtZero
