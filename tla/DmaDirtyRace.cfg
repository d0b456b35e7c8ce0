\* Two device threads translate for writing at the same time.
SPECIFICATION Spec
CONSTANTS
    Word = 32
    Bases = {0}
    Sizes = {4}
    PgSizes = {1, 2}
    Threads = {t1, t2}
    CharBit = 2
    Serial = FALSE
    NULL = NULL
INVARIANT AlignedWritesLogged
