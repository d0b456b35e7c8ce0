\* The logging contract for every span and every base, one translation at a time.
SPECIFICATION Spec
CONSTANTS
    Word = 32
    Bases = {0, 4}
    Sizes = {4, 8}
    PgSizes = {1, 2, 4}
    Threads = {t1}
    CharBit = 2
    Serial = TRUE
    NULL = NULL
INVARIANT WritesLogged
