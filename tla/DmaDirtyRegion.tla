--------------------------- MODULE DmaDirtyRegion ---------------------------
(***************************************************************************)
(* The dirty bitmap of ONE registered region while page logging is on:     *)
(* the write-intent translations of the device threads that mark it        *)
(* (dma_init_sg calling _dma_mark_dirty) and the snapshot that reads and   *)
(* clears it.                                                              *)
(*                                                                         *)
(* The loop of _dma_mark_dirty sets one bit in a round, with a read and a  *)
(* write of the byte that holds it: the two are steps of their own here,   *)
(* so that the marking of two threads can interleave.  The module checks   *)
(* the pages marked against the pages the written bytes really lie in.     *)
(* The whole controller is module DmaController.                           *)
(***************************************************************************)
EXTENDS DmaBitmap

CONSTANTS
    Bases,      \* DMA addresses a region may start at
    Sizes,      \* sizes in bytes a region may have
    PgSizes,    \* page sizes logging may be started with
    Threads,    \* the device threads that translate
    CharBit,    \* CHAR_BIT: the pages that share a byte of the bitmap
    Serial,     \* TRUE: the embedding runs one translation at a time
    NULL

ASSUME /\ Bases \subseteq 0 .. (Word - 1)
       /\ Sizes \subseteq 1 .. (Word - 1)
       /\ \A b \in Bases, s \in Sizes : b + s < Word
       /\ PgSizes \subseteq Nat \ {0}
       /\ CharBit \in Nat \ {0}
       /\ Serial \in BOOLEAN

VARIABLES
    region,       \* [base, size] of the region, fixed by the registration
    pgsize,       \* dma->dirty_pgsize, fixed by dirty_page_logging_start
    bitmap,       \* region->dirty_bitmap: the set of the pages marked
    mark,         \* per thread, the loop of _dma_mark_dirty it is in
    owed,         \* history: pages written to since the last snapshot
    owedAligned   \* history: those of them written by page-aligned spans

vars == <<region, pgsize, bitmap, mark, owed, owedAligned>>

\* The entry dma_init_sg builds for a span of the region.
SgOf(offset, length) ==
    [dma_addr |-> region.base, region |-> 0, offset |-> offset,
     length |-> length, mappable |-> TRUE]

\* The spans of at least one byte that lie inside the region.
Spans == { <<o, l>> \in (0 .. region.size - 1) \X (1 .. region.size) :
             o + l <= region.size }

\* The pages whose bits are in the byte dirty_bitmap[i / CHAR_BIT].
ByteOf(i) == { p \in 0 .. (Word - 1) : p \div CharBit = i \div CharBit }

\* Mistake: the byte is assigned the bit, not or-ed with it.
StoreByteAssigns(bm, byte, i) == (bm \ ByteOf(i)) \cup {i}

\* dirty_bitmap[i / CHAR_BIT] |= 1 << (i % CHAR_BIT), on the byte read.
StoreByte(bm, byte, i) == (bm \ ByteOf(i)) \cup byte \cup {i}

Init ==
    /\ region \in [base : Bases, size : Sizes]
    /\ pgsize \in PgSizes
    /\ bitmap = {}
    /\ mark = [t \in Threads |-> NULL]
    /\ owed = {}
    /\ owedAligned = {}

\* dma_init_sg returns: the pages of the span are owed to the snapshot.
Return(t, offset, length) ==
    /\ mark' = [mark EXCEPT ![t] = NULL]
    /\ owed' = owed \cup PagesTouched(pgsize, offset, length)
    /\ owedAligned' = IF PageAligned(pgsize, offset)
                      THEN owedAligned \cup PagesTouched(pgsize, offset, length)
                      ELSE owedAligned

\* A write-intent translation of the span enters _dma_mark_dirty, and
\* leaves it at once when the range of pages is empty.
MarkWrite(t, offset, length) ==
    LET range == BitmapGetPgRange(pgsize, region.base, SgOf(offset, length))
    IN  /\ mark[t] = NULL
        /\ Serial => \A u \in Threads : mark[u] = NULL
        /\ ShouldMarkDirty(pgsize, TRUE)
        /\ IF range.start <= range.end
           THEN /\ mark' = [mark EXCEPT ![t] =
                              [i |-> range.start, end |-> range.end,
                               byte |-> NULL, offset |-> offset,
                               length |-> length]]
                /\ UNCHANGED <<owed, owedAligned>>
           ELSE Return(t, offset, length)
        /\ UNCHANGED <<region, pgsize, bitmap>>

\* A round of the loop reads the byte of page i.
MarkLoad(t) ==
    /\ mark[t] # NULL /\ mark[t].byte = NULL
    /\ mark' = [mark EXCEPT ![t].byte = bitmap \cap ByteOf(mark[t].i)]
    /\ UNCHANGED <<region, pgsize, bitmap, owed, owedAligned>>

\* The round writes the byte back with the bit set, and i++ <= end decides
\* whether the loop goes on: i is a size_t.
MarkStore(t) ==
    LET m == mark[t]
    IN  /\ m # NULL /\ m.byte # NULL
        /\ bitmap' = StoreByte(bitmap, m.byte, m.i)
        /\ IF Wrap(m.i + 1) <= m.end
           THEN /\ mark' = [mark EXCEPT ![t].i = Wrap(m.i + 1),
                                        ![t].byte = NULL]
                /\ UNCHANGED <<owed, owedAligned>>
           ELSE Return(t, m.offset, m.length)
        /\ UNCHANGED <<region, pgsize>>

\* dirty_page_get, between translations: the caller takes the bitmap,
\* which starts again empty.
Snapshot ==
    /\ \A t \in Threads : mark[t] = NULL
    /\ bitmap # {}
    /\ bitmap' = {}
    /\ owed' = {}
    /\ owedAligned' = {}
    /\ UNCHANGED <<region, pgsize, mark>>

Next ==
    \/ \E t \in Threads :
          \/ \E s \in Spans : MarkWrite(t, s[1], s[2])
          \/ MarkLoad(t)
          \/ MarkStore(t)
    \/ Snapshot

Spec == Init /\ [][Next]_vars

-----------------------------------------------------------------------------
(***************************************************************************)
(* The bitmap holds page numbers a size_t can hold, a round of the loop    *)
(* holds bits of the byte of its page only, and the history holds pages of *)
(* the region: _get_pgstart and _get_pgend compute unsigned.               *)
(***************************************************************************)
TypeOK ==
    /\ region \in [base : Bases, size : Sizes]
    /\ pgsize \in PgSizes
    /\ bitmap \subseteq 0 .. (Word - 1)
    /\ \A t \in Threads :
          mark[t] # NULL =>
             /\ mark[t].i \in 0 .. (Word - 1)
             /\ mark[t].byte # NULL => mark[t].byte \subseteq ByteOf(mark[t].i)
    /\ owed \subseteq BitmapPages(region.size, pgsize)
    /\ owedAligned \subseteq owed

(***************************************************************************)
(* What the code keeps of the logging contract.  For a region registered   *)
(* at DMA address 0, every page written to by a span that starts on a page *)
(* boundary is in the bitmap at the next snapshot, whatever was marked in  *)
(* between: the pages of _dma_bitmap_get_pgrange are those the bytes lie   *)
(* in, and the |= of _dma_mark_dirty keeps the other bits of the byte.     *)
(***************************************************************************)
AlignedWritesLogged ==
    region.base = 0 => owedAligned \subseteq bitmap

(***************************************************************************)
(* For a region registered at DMA address 0, _dma_mark_dirty sets no bit   *)
(* beyond the last page of the region, however the span is aligned: the    *)
(* loop never writes past the bitmap that logging start allocated.         *)
(***************************************************************************)
MarksInsideBitmapAtZero ==
    region.base = 0 => bitmap \subseteq BitmapPages(region.size, pgsize)

(***************************************************************************)
(* The logging contract as the specification states it (the "logging       *)
(* upper bound"): every page that holds a byte of a write-intent           *)
(* translation is set in the bitmap, whatever the offset of the span.      *)
(***************************************************************************)
WritesLogged == owed \subseteq bitmap

=============================================================================
