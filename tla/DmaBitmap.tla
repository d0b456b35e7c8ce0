----------------------------- MODULE DmaBitmap -----------------------------
(***************************************************************************)
(* Page arithmetic of the dirty-page tracker of the DMA controller         *)
(* (dma.h: _dma_should_mark_dirty .. _dma_mark_dirty).                     *)
(*                                                                         *)
(* A scatter-gather entry is a record [dma_addr, region, offset, length,   *)
(* mappable]; a dirty bitmap is the set of the page numbers whose bit is   *)
(* set.  The C code computes with size_t and uint64_t: every sum and       *)
(* difference below is taken modulo Word, so that the model wraps where    *)
(* the build wraps.                                                        *)
(***************************************************************************)
EXTENDS Integers

CONSTANT Word      \* size_t and uint64_t arithmetic is modulo Word (2^64)

ASSUME Word \in Nat \ {0}

Wrap(x) == x % Word

(***************************************************************************)
(* Plausible mistakes in the arithmetic, each put in the place of the      *)
(* definition it is named after to show that a property notices it.        *)
(***************************************************************************)
GetPgStartSigned(pgsize, base_addr, offset) == (offset - base_addr) \div pgsize

GetPgEndNoRoundUp(pgsize, len, start) == Wrap(start + (len \div pgsize) - 1)

GetPgEndOnePast(pgsize, len, start) ==
    Wrap(start + (len \div pgsize) + (IF len % pgsize # 0 THEN 1 ELSE 0))

(***************************************************************************)
(* Marking is wanted for a write-intent translation while logging is on.   *)
(* `write' abstracts (prot & PROT_WRITE) == PROT_WRITE.                    *)
(***************************************************************************)
ShouldMarkDirty(pgsize, write) == write /\ pgsize > 0

(***************************************************************************)
(* The first page of a span.  The callee subtracts base_addr from what it  *)
(* is given; _dma_bitmap_get_pgrange gives it sg->offset, which is already *)
(* relative to the region.                                                 *)
(***************************************************************************)
GetPgStart(pgsize, base_addr, offset) == Wrap(offset - base_addr) \div pgsize

(***************************************************************************)
(* The last page of a span of len bytes whose first page is start: the     *)
(* number of pages is taken from len alone.                                *)
(***************************************************************************)
GetPgEnd(pgsize, len, start) ==
    Wrap(start + (len \div pgsize) + (IF len % pgsize # 0 THEN 1 ELSE 0) - 1)

BitmapGetPgRange(pgsize, base, sg) ==
    LET start == GetPgStart(pgsize, base, sg.offset)
    IN  [start |-> start, end |-> GetPgEnd(pgsize, sg.length, start)]

(***************************************************************************)
(* The bitmap after  for (i = start; i <= end; i++) bitmap[i/8] |= 1<<i%8  *)
(* The loop does not look at the size of the bitmap.                       *)
(***************************************************************************)
MarkDirty(bitmap, pgsize, base, sg) ==
    LET range == BitmapGetPgRange(pgsize, base, sg)
    IN  bitmap \cup (range.start .. range.end)

(***************************************************************************)
(* Reference definitions: the pages of a region that a span of bytes       *)
(* touches, and the pages a region of the given size has.                  *)
(***************************************************************************)
PagesTouched(pgsize, offset, len) ==
    { b \div pgsize : b \in offset .. (offset + len - 1) }

BitmapPages(size, pgsize) == 0 .. ((size + pgsize - 1) \div pgsize) - 1

PageAligned(pgsize, offset) == offset % pgsize = 0

=============================================================================
