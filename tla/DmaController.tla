--------------------------- MODULE DmaController ---------------------------
(***************************************************************************)
(* The DMA controller of the device-emulation library: the table of the    *)
(* registered regions of guest memory, the translation of a span of DMA    *)
(* addresses into scatter-gather entries, the map and unmap calls that pin *)
(* regions while a device holds pointers into them, and dirty-page         *)
(* logging.                                                                *)
(*                                                                         *)
(* Two kinds of actors share the controller.  The server's message loop    *)
(* registers and unregisters regions and drives logging; the device        *)
(* threads translate, map and unmap.  The controller has no lock of its    *)
(* own: what the embedding must guarantee is a constant of this module     *)
(* (SerialCalls, FreshSg), so that a run can grant it or withdraw it.      *)
(*                                                                         *)
(* dma_addr_to_sg, dma_init_sg, dma_map_sg and dma_unmap_sg are translated *)
(* from dma.h.  The operations of dma.c (registration, removal, the slow   *)
(* path of the translation, logging start, stop and get) are written from  *)
(* the specification of the library.                                       *)
(*                                                                         *)
(* A call that returns an error and changes nothing is a stuttering step.  *)
(***************************************************************************)
EXTENDS DmaBitmap, Sequences, SequencesExt, FiniteSets

CONSTANTS
    Threads,       \* the device threads, each with its own region_hint
    MaxRegions,    \* dma->max_regions
    Spans,         \* the [base, size] the server registers and unregisters
    Requests,      \* the [addr, len, write, max_sg] the devices translate
    Probes,        \* the requests the properties ask every state about
    PgSizes,       \* the page sizes logging is started with
    LenLimit,      \* a uint32_t length is modulo LenLimit (2^32)
    SerialCalls,   \* TRUE: the embedding runs one device call at a time
    FreshSg,       \* TRUE: no region is removed while a device holds a
                   \*       translated list it has not mapped yet
    AddAllocates,  \* TRUE: a region registered while logging gets a bitmap
    NULL           \* the null pointer

ASSUME /\ MaxRegions \in Nat \ {0}
       /\ \A s \in Spans : s.size > 0 /\ s.base + s.size < Word
       /\ \A r \in Requests \cup Probes :
             r.addr \in 0 .. (Word - 1) /\ r.len \in 0 .. (Word - 1)
       /\ PgSizes \subseteq Nat \ {0}
       /\ LenLimit \in 1 .. Word
       /\ {SerialCalls, FreshSg, AddAllocates} \subseteq BOOLEAN

VARIABLES
    regions,       \* dma->regions[0 .. nregions-1], as a sequence
    dirty_pgsize,  \* dma->dirty_pgsize, 0 while logging is off
    region_hint,   \* the thread-local hint of dma_addr_to_sg
    pc,            \* where each device thread stands
    sgl,           \* the scatter-gather list a thread holds
    iov,           \* the iovecs dma_map_sg has filled for it
    tmp,           \* the slot and the count a refcnt++ or refcnt-- has read
    overrun,       \* dma_unmap_sg has written outside regions[0..nregions)
    owed           \* history: pages written through page-aligned spans

vars == <<regions, dirty_pgsize, region_hint, pc, sgl, iov, tmp, overrun,
          owed>>

Bases == { s.base : s \in Spans }
Hints == 0 .. (MaxRegions - 1)

-----------------------------------------------------------------------------
(***************************************************************************)
(* The table.                                                              *)
(***************************************************************************)

\* dma_memory_region_t: fd, offset and the address of the host mapping are
\* abstracted to `mappable' (info.vaddr != NULL), info.prot to `writable'.
Region(span, writable, mappable, bitmap) ==
    [base |-> span.base, size |-> span.size, writable |-> writable,
     mappable |-> mappable, refcnt |-> 0, bitmap |-> bitmap]

RegionEnd(r) == Wrap(r.base + r.size)                   \* iov_end()

SpanOf(r) == [base |-> r.base, size |-> r.size]

Overlaps(r, span) ==
    r.base < span.base + span.size /\ span.base < r.base + r.size

Trunc32(len) == len % LenLimit

-----------------------------------------------------------------------------
(***************************************************************************)
(* Translation.  The operators take the table as an argument, so that the  *)
(* properties can ask what a translation would return in any state.        *)
(***************************************************************************)

\* dma_init_sg refuses a write to a region that is not writable.
InitSgDenied(region, write) == write /\ ~region.writable

\* The entry dma_init_sg fills for regs[index + 1].  `write' is history:
\* the prot of the call, which a dma_sg_t does not keep.
InitSg(region, index, dma_addr, len, write) ==
    [dma_addr |-> region.base, region |-> index,
     offset |-> Wrap(dma_addr - region.base), length |-> len,
     mappable |-> region.mappable, write |-> write]

\* regions[region_hint] as dma_addr_to_sg reads it, before it has tested
\* the hint: a slot after the last region holds what a removal left there.
HintedSlots(regs, hint) ==
    IF hint < Len(regs) THEN {regs[hint + 1]}
    ELSE [base : Bases, size : { s.size : s \in Spans }]

\* Mistake: the fast path without the test of the end of the span.
FastPathNoEndCheck(regs, hint, req) ==
    \E region \in HintedSlots(regs, hint) :
        /\ req.max_sg > 0
        /\ req.len > 0
        /\ req.addr >= region.base
        /\ req.addr < RegionEnd(region)
        /\ hint < Len(regs)

\* Mistake: the fast path without the test of max_sg.
FastPathAnyMaxSg(regs, hint, req) ==
    \E region \in HintedSlots(regs, hint) :
        /\ req.len > 0
        /\ req.addr >= region.base
        /\ Wrap(req.addr + req.len) <= RegionEnd(region)
        /\ hint < Len(regs)

\* The condition of the fast path: the span lies in the hinted region, and
\* the hint, tested last, is the slot of a region.
FastPathHit(regs, hint, req) ==
    \E region \in HintedSlots(regs, hint) :
        /\ req.max_sg > 0
        /\ req.len > 0
        /\ req.addr >= region.base
        /\ Wrap(req.addr + req.len) <= RegionEnd(region)
        /\ hint < Len(regs)

\* The walk of the slow path: the pieces of [addr, addr + len), one for
\* each region met, up to the first address no region holds.
RECURSIVE Pieces(_, _, _)
Pieces(regs, addr, len) ==
    LET at == { i \in 1 .. Len(regs) :
                  regs[i].base <= addr /\ addr < regs[i].base + regs[i].size }
        i  == Min(at)
        n  == Min({len, regs[i].base + regs[i].size - addr})
    IN  IF len = 0 \/ at = {}
        THEN <<>>
        ELSE <<[index |-> i - 1, addr |-> addr, len |-> n]>>
                 \o Pieces(regs, addr + n, len - n)

\* _dma_addr_sg_split: [ret, sgs], where sgs are the entries dma_init_sg has
\* filled, which the caller may use when ret > 0.
AddrSgSplit(regs, addr, len, max_sg, write) ==
    LET pieces == Pieces(regs, addr, len)
        needed == Len(pieces)
        found  == FoldLeft(LAMBDA sum, p : sum + p.len, 0, pieces) = len
        denied == { k \in 1 .. needed :
                      InitSgDenied(regs[pieces[k].index + 1], write) }
        filled == IF denied = {} THEN needed ELSE Min(denied) - 1
        sgs    == [k \in 1 .. filled |->
                     InitSg(regs[pieces[k].index + 1], pieces[k].index,
                            pieces[k].addr, pieces[k].len, write)]
    IN  CASE ~found          -> [ret |-> -1, sgs |-> <<>>]
          [] needed > max_sg -> [ret |-> -(needed + 1), sgs |-> <<>>]
          [] denied # {}     -> [ret |-> -1, sgs |-> sgs]
          [] OTHER           -> [ret |-> needed, sgs |-> sgs]

\* dma_addr_to_sg: [ret, sgs, hint], hint being region_hint after the call.
\* Both callees take the length as a uint32_t.
AddrToSg(regs, hint, req) ==
    IF FastPathHit(regs, hint, req)
    THEN IF InitSgDenied(regs[hint + 1], req.write)
         THEN [ret |-> -1, sgs |-> <<>>, hint |-> hint]
         ELSE [ret |-> 1, hint |-> hint,
               sgs |-> <<InitSg(regs[hint + 1], hint, req.addr,
                                Trunc32(req.len), req.write)>>]
    ELSE LET split == AddrSgSplit(regs, req.addr, Trunc32(req.len),
                                  req.max_sg, req.write)
         IN  [ret |-> split.ret, sgs |-> split.sgs,
              hint |-> IF split.ret > 0 THEN split.sgs[1].region ELSE hint]

\* The entries of a translation that _dma_mark_dirty is called for.
Marked(regs, pgsize, hint, req) ==
    IF ShouldMarkDirty(pgsize, req.write)
    THEN ToSet(AddrToSg(regs, hint, req).sgs)
    ELSE {}

\* assert(region->dirty_bitmap != NULL) holds for each of them.
MarkFindsBitmap(regs, pgsize, hint, req) ==
    \A sg \in Marked(regs, pgsize, hint, req) :
        regs[sg.region + 1].bitmap # NULL

\* The table after the marking: a list has one entry for a region at most.
MarkAll(regs, pgsize, marked) ==
    [i \in DOMAIN regs |->
        IF \E sg \in marked : sg.region = i - 1
        THEN LET sg == CHOOSE sg \in marked : sg.region = i - 1
             IN  [regs[i] EXCEPT
                    !.bitmap = MarkDirty(@, pgsize, regs[i].base, sg)]
        ELSE regs[i]]

-----------------------------------------------------------------------------
(***************************************************************************)
(* The calls in flight.                                                    *)
(***************************************************************************)

InCall(t) == pc[t] \in {"map_next", "map_store", "unmap_next", "unmap_store"}

\* The server's operations run while no device call is in flight.
NoCallInFlight == \A t \in Threads : ~InCall(t)

\* A device thread may enter a call.
MayCall(t) == SerialCalls => \A u \in Threads \ {t} : ~InCall(u)

Init ==
    /\ regions = <<>>
    /\ dirty_pgsize = 0
    /\ region_hint = [t \in Threads |-> 0]
    /\ pc = [t \in Threads |-> "idle"]
    /\ sgl = [t \in Threads |-> <<>>]
    /\ iov = [t \in Threads |-> <<>>]
    /\ tmp = [t \in Threads |-> NULL]
    /\ overrun = FALSE
    /\ owed = [b \in Bases |-> {}]

-----------------------------------------------------------------------------
(***************************************************************************)
(* The server: the region table.                                           *)
(***************************************************************************)

\* dma_controller_add_region, when it installs the region.  A failed mmap
\* leaves the region installed and not mappable.
AddRegion(span, writable, mappable) ==
    /\ NoCallInFlight
    /\ Len(regions) < MaxRegions
    /\ \A i \in DOMAIN regions : ~Overlaps(regions[i], span)
    /\ regions' = Append(regions,
                         Region(span, writable, mappable,
                                IF dirty_pgsize > 0 /\ AddAllocates
                                THEN {} ELSE NULL))
    /\ owed' = [owed EXCEPT ![span.base] = {}]
    /\ UNCHANGED <<dirty_pgsize, region_hint, pc, sgl, iov, tmp, overrun>>

\* dma_controller_remove_region on a region nobody has mapped: the host
\* mapping and the bitmap go, the later regions move down by one.  On a
\* region that is mapped the call returns busy and changes nothing.
RemoveRegion(span) ==
    /\ NoCallInFlight
    /\ FreshSg => \A t \in Threads : pc[t] # "translated"
    /\ \E i \in DOMAIN regions :
          /\ SpanOf(regions[i]) = span
          /\ regions[i].refcnt <= 0
          /\ regions' = RemoveAt(regions, i)
    /\ owed' = [owed EXCEPT ![span.base] = {}]
    /\ UNCHANGED <<dirty_pgsize, region_hint, pc, sgl, iov, tmp, overrun>>

\* dma_controller_remove_regions, at teardown: every region goes, mapped
\* or not.  It is safe only when no device holds anything.
RemoveRegions ==
    /\ \A t \in Threads : pc[t] = "idle"
    /\ regions # <<>>
    /\ regions' = <<>>
    /\ owed' = [b \in Bases |-> {}]
    /\ UNCHANGED <<dirty_pgsize, region_hint, pc, sgl, iov, tmp, overrun>>

-----------------------------------------------------------------------------
(***************************************************************************)
(* The server: dirty-page logging.                                         *)
(***************************************************************************)

\* dma_controller_dirty_page_logging_start: every region gets a bitmap.
LoggingStart(pgsize) ==
    /\ NoCallInFlight
    /\ dirty_pgsize = 0
    /\ dirty_pgsize' = pgsize
    /\ regions' = [i \in DOMAIN regions |-> [regions[i] EXCEPT !.bitmap = {}]]
    /\ owed' = [b \in Bases |-> {}]
    /\ UNCHANGED <<region_hint, pc, sgl, iov, tmp, overrun>>

\* dma_controller_dirty_page_logging_stop: the bitmaps are freed.
LoggingStop ==
    /\ NoCallInFlight
    /\ dirty_pgsize > 0
    /\ dirty_pgsize' = 0
    /\ regions' = [i \in DOMAIN regions |->
                     [regions[i] EXCEPT !.bitmap = NULL]]
    /\ owed' = [b \in Bases |-> {}]
    /\ UNCHANGED <<region_hint, pc, sgl, iov, tmp, overrun>>

\* dma_controller_dirty_page_get of a region whose bitmap has bits set: the
\* caller gets them, and the bitmap starts again from zero.
DirtyGet(span) ==
    /\ NoCallInFlight
    /\ dirty_pgsize > 0
    /\ \E i \in DOMAIN regions :
          /\ SpanOf(regions[i]) = span
          /\ regions[i].bitmap \notin {NULL, {}}
          /\ regions' = [regions EXCEPT ![i].bitmap = {}]
    /\ owed' = [owed EXCEPT ![span.base] = {}]
    /\ UNCHANGED <<dirty_pgsize, region_hint, pc, sgl, iov, tmp, overrun>>

-----------------------------------------------------------------------------
(***************************************************************************)
(* The device threads.                                                     *)
(***************************************************************************)

\* The pages a correct tracker owes for the entries of a translation.
Owes(sgs, base) ==
    UNION { PagesTouched(dirty_pgsize, sg.offset, sg.length) :
              sg \in { s \in ToSet(sgs) :
                         /\ s.dma_addr = base
                         /\ PageAligned(dirty_pgsize, s.offset) } }

\* One call of dma_addr_to_sg.  The thread keeps the list when ret > 0.
Translate(t, req) ==
    LET res   == AddrToSg(regions, region_hint[t], req)
        marks == Marked(regions, dirty_pgsize, region_hint[t], req)
    IN  /\ pc[t] = "idle"
        /\ MayCall(t)
        /\ MarkFindsBitmap(regions, dirty_pgsize, region_hint[t], req)
        /\ regions' = MarkAll(regions, dirty_pgsize, marks)
        /\ region_hint' = [region_hint EXCEPT ![t] = res.hint]
        /\ pc' = [pc EXCEPT ![t] = IF res.ret > 0 THEN "translated" ELSE @]
        /\ sgl' = [sgl EXCEPT ![t] = IF res.ret > 0 THEN res.sgs ELSE @]
        /\ owed' = IF res.ret > 0 /\ marks # {}
                   THEN [b \in Bases |-> owed[b] \cup Owes(res.sgs, b)]
                   ELSE owed
        /\ UNCHANGED <<dirty_pgsize, iov, tmp, overrun>>

\* The device gives up a list it has not mapped.
Discard(t) ==
    /\ pc[t] = "translated"
    /\ pc' = [pc EXCEPT ![t] = "idle"]
    /\ sgl' = [sgl EXCEPT ![t] = <<>>]
    /\ UNCHANGED <<regions, dirty_pgsize, region_hint, iov, tmp, overrun,
                   owed>>

\* The entry dma_map_sg is at, and whether it returns an error for it.
MapAt(t) == sgl[t][Len(iov[t]) + 1]

\* -EINVAL for an index outside the table, -EFAULT for a region without a
\* host mapping.
MapRejects(regs, sg) ==
    ~(sg.region < Len(regs) /\ regs[sg.region + 1].mappable)

\* The thread is in the loop of dma_map_sg, or may enter the call.
MapEnter(t) ==
    \/ pc[t] = "map_next"
    \/ pc[t] = "translated" /\ MayCall(t)

\* dma_map_sg returns an error at an entry and undoes nothing: the regions
\* of the entries before it stay pinned.  What follows is the caller's, and
\* assumed: it keeps the entries that have an iovec, to unmap them.
MapReject(t) ==
    /\ MapEnter(t)
    /\ MapRejects(regions, MapAt(t))
    /\ pc' = [pc EXCEPT ![t] = IF iov[t] = <<>> THEN "idle" ELSE "mapped"]
    /\ sgl' = [sgl EXCEPT ![t] = SubSeq(@, 1, Len(iov[t]))]
    /\ UNCHANGED <<regions, dirty_pgsize, region_hint, iov, tmp, overrun,
                   owed>>

\* One round of the loop of dma_map_sg up to the read of refcnt++: the
\* iovec of the entry points into the mapping of regions[sg.region].
MapLoad(t) ==
    LET sg == MapAt(t)
    IN  /\ MapEnter(t)
        /\ ~MapRejects(regions, sg)
        /\ iov' = [iov EXCEPT ![t] =
                     Append(@, [base |-> regions[sg.region + 1].base,
                                offset |-> sg.offset, len |-> sg.length])]
        /\ tmp' = [tmp EXCEPT ![t] =
                     [slot |-> sg.region,
                      val |-> regions[sg.region + 1].refcnt]]
        /\ pc' = [pc EXCEPT ![t] = "map_store"]
        /\ UNCHANGED <<regions, dirty_pgsize, region_hint, sgl, overrun,
                       owed>>

\* Mistake: the loop of dma_map_sg ends one entry early.
MapStoreStopsEarly(t) ==
    /\ pc[t] = "map_store"
    /\ regions' = [regions EXCEPT ![tmp[t].slot + 1].refcnt = tmp[t].val + 1]
    /\ tmp' = [tmp EXCEPT ![t] = NULL]
    /\ pc' = [pc EXCEPT ![t] =
                IF Len(iov[t]) + 1 >= Len(sgl[t]) THEN "mapped"
                                                  ELSE "map_next"]
    /\ UNCHANGED <<dirty_pgsize, region_hint, sgl, iov, overrun, owed>>

\* Mistake: dma_map_sg without refcnt++.
MapStoreNoIncrement(t) ==
    /\ pc[t] = "map_store"
    /\ tmp' = [tmp EXCEPT ![t] = NULL]
    /\ pc' = [pc EXCEPT ![t] =
                IF Len(iov[t]) = Len(sgl[t]) THEN "mapped" ELSE "map_next"]
    /\ UNCHANGED <<regions, dirty_pgsize, region_hint, sgl, iov, overrun,
                   owed>>

\* The write of refcnt++, and the end of the round.
MapStore(t) ==
    /\ pc[t] = "map_store"
    /\ regions' = [regions EXCEPT ![tmp[t].slot + 1].refcnt = tmp[t].val + 1]
    /\ tmp' = [tmp EXCEPT ![t] = NULL]
    /\ pc' = [pc EXCEPT ![t] =
                IF Len(iov[t]) = Len(sgl[t]) THEN "mapped" ELSE "map_next"]
    /\ UNCHANGED <<dirty_pgsize, region_hint, sgl, iov, overrun, owed>>

\* Mistake: the search of dma_unmap_sg stops one slot late.
UnmapSlotOnePast(regs, sg) ==
    LET at == { i \in DOMAIN regs : regs[i].base = sg.dma_addr }
    IN  IF at = {} THEN Len(regs) ELSE Min(at)

\* The inner loop of dma_unmap_sg: the slot of the first region that starts
\* at the entry's dma_addr, or the slot after the last region.
UnmapSlot(regs, sg) ==
    LET at == { i \in DOMAIN regs : regs[i].base = sg.dma_addr }
    IN  IF at = {} THEN Len(regs) ELSE Min(at) - 1

\* Mistake: the test for "bad region" compares with the start of the table.
UnmapSkipsAll(regs, slot) == slot >= 0

\* The test for "bad region" after the loop.
UnmapSkips(regs, slot) == slot > Len(regs)

UnmapEnter(t) ==
    \/ pc[t] = "unmap_next"
    \/ pc[t] = "mapped" /\ MayCall(t)

\* The end of a round of dma_unmap_sg: the entry is done with.
UnmapDone(t) ==
    /\ sgl' = [sgl EXCEPT ![t] = Tail(@)]
    /\ iov' = [iov EXCEPT ![t] = Tail(@)]
    /\ pc' = [pc EXCEPT ![t] =
                IF Len(sgl[t]) = 1 THEN "idle" ELSE "unmap_next"]

\* One round of the loop of dma_unmap_sg up to the read of refcnt--.  What
\* is read from a slot after the last region is of no account.
UnmapLoad(t) ==
    LET slot == UnmapSlot(regions, Head(sgl[t]))
    IN  /\ UnmapEnter(t)
        /\ IF UnmapSkips(regions, slot)
           THEN UnmapDone(t) /\ UNCHANGED tmp
           ELSE /\ tmp' = [tmp EXCEPT ![t] =
                             [slot |-> slot,
                              val |-> IF slot < Len(regions)
                                      THEN regions[slot + 1].refcnt ELSE 0]]
                /\ pc' = [pc EXCEPT ![t] = "unmap_store"]
                /\ UNCHANGED <<sgl, iov>>
        /\ UNCHANGED <<regions, dirty_pgsize, region_hint, overrun, owed>>

\* The write of refcnt--, and the end of the round.
UnmapStore(t) ==
    /\ pc[t] = "unmap_store"
    /\ IF tmp[t].slot < Len(regions)
       THEN /\ regions' = [regions EXCEPT
                             ![tmp[t].slot + 1].refcnt = tmp[t].val - 1]
            /\ UNCHANGED overrun
       ELSE /\ overrun' = TRUE
            /\ UNCHANGED regions
    /\ tmp' = [tmp EXCEPT ![t] = NULL]
    /\ UnmapDone(t)
    /\ UNCHANGED <<dirty_pgsize, region_hint, owed>>

-----------------------------------------------------------------------------
Server ==
    \/ \E s \in Spans, w, m \in BOOLEAN : AddRegion(s, w, m)
    \/ \E s \in Spans : RemoveRegion(s) \/ DirtyGet(s)
    \/ RemoveRegions
    \/ \E p \in PgSizes : LoggingStart(p)
    \/ LoggingStop

Device(t) ==
    \/ \E req \in Requests : Translate(t, req)
    \/ Discard(t)
    \/ MapReject(t) \/ MapLoad(t) \/ MapStore(t)
    \/ UnmapLoad(t) \/ UnmapStore(t)

Next == Server \/ \E t \in Threads : Device(t)

Spec == Init /\ [][Next]_vars

-----------------------------------------------------------------------------
(***************************************************************************)
(* Properties.                                                             *)
(***************************************************************************)

SgEntries ==
    [dma_addr : Bases, region : Hints, offset : 0 .. (Word - 1),
     length : 0 .. (LenLimit - 1), mappable : BOOLEAN, write : BOOLEAN]

IovEntries ==
    [base : Bases, offset : 0 .. (Word - 1), len : 0 .. (LenLimit - 1)]

\* The variables hold values of the types of dma_controller_t, dma_sg_t and
\* struct iovec, and a thread holds iovecs and a pending count only in the
\* states of a call that has them.
TypeOK ==
    /\ regions \in Seq([base : Bases, size : Nat \ {0}, writable : BOOLEAN,
                        mappable : BOOLEAN, refcnt : Int,
                        bitmap : {NULL} \cup SUBSET (0 .. (Word - 1))])
    /\ Len(regions) <= MaxRegions
    /\ dirty_pgsize \in PgSizes \cup {0}
    /\ region_hint \in [Threads -> Hints]
    /\ pc \in [Threads -> {"idle", "translated", "map_next", "map_store",
                           "mapped", "unmap_next", "unmap_store"}]
    /\ overrun \in BOOLEAN
    /\ owed \in [Bases -> SUBSET (0 .. (Word - 1))]
    /\ \A t \in Threads :
          /\ sgl[t] \in Seq(SgEntries)
          /\ iov[t] \in Seq(IovEntries)
          /\ Len(iov[t]) <= Len(sgl[t])
          /\ (pc[t] = "idle") = (sgl[t] = <<>>)
          /\ pc[t] \in {"mapped", "unmap_next", "unmap_store"}
                => Len(iov[t]) = Len(sgl[t])
          /\ pc[t] = "translated" => iov[t] = <<>>
          /\ (tmp[t] # NULL) = (pc[t] \in {"map_store", "unmap_store"})

\* The entries of thread t whose refcnt++ has been written and whose
\* refcnt-- has not: dma_unmap_sg drops an entry as it writes.
Pinning(t) ==
    1 .. (Len(iov[t]) - (IF pc[t] = "map_store" THEN 1 ELSE 0))

\* The refcnt of a region is the number of mapped scatter-gather entries
\* that refer to it: dma_map_sg adds one for each entry, dma_unmap_sg takes
\* one off for each, and nothing else changes it.
RefcountMatchesMappings ==
    \A i \in DOMAIN regions :
        regions[i].refcnt =
            Cardinality({ e \in UNION { {t} \X Pinning(t) : t \in Threads } :
                            sgl[e[1]][e[2]].dma_addr = regions[i].base })

\* Every iovec a device holds points into the host mapping of a region that
\* is still registered and mappable, lies inside it, and that region is the
\* one the entry was translated to: dma_controller_remove_region never
\* unmaps memory that dma_map_sg has handed out.
IovPointsIntoTranslatedRegion ==
    \A t \in Threads : \A k \in DOMAIN iov[t] :
        /\ iov[t][k].base = sgl[t][k].dma_addr
        /\ \E i \in DOMAIN regions :
              /\ regions[i].base = iov[t][k].base
              /\ regions[i].mappable
              /\ iov[t][k].offset + iov[t][k].len <= regions[i].size

\* The controller implements the pinning it promises (module DmaPinning):
\* a region is held from the round of dma_map_sg that fills an iovec to
\* the round of dma_unmap_sg that ends it, dma_controller_remove_region
\* takes away only a region nobody holds, and no iovec is handed out into
\* memory that is not registered.
Pinned ==
    INSTANCE DmaPinning WITH
        registered <- { regions[i].base : i \in DOMAIN regions },
        held <- [t \in Threads |->
                   [k \in DOMAIN iov[t] |-> iov[t][k].base]]

ImplementsPinning == Pinned!Spec

\* dma_unmap_sg writes a refcnt only inside regions[0 .. nregions-1].
UnmapStaysInsideTable == ~overrun

\* The span of a request can be translated: every address of it lies in a
\* region the access is allowed in, and the regions it crosses fit max_sg.
Translatable(regs, req) ==
    LET span == req.addr .. (req.addr + req.len - 1)
        home(a) == { i \in DOMAIN regs :
                       regs[i].base <= a /\ a < regs[i].base + regs[i].size }
    IN  /\ req.len > 0
        /\ \A a \in span : \E i \in home(a) : req.write => regs[i].writable
        /\ Cardinality(UNION { home(a) : a \in span }) <= req.max_sg

\* The entries sgs are the span of the request, in order and without gaps.
Covers(sgs, req) ==
    /\ sgs[1].dma_addr + sgs[1].offset = req.addr
    /\ \A k \in 1 .. (Len(sgs) - 1) :
          sgs[k].dma_addr + sgs[k].offset + sgs[k].length
              = sgs[k + 1].dma_addr + sgs[k + 1].offset
    /\ FoldLeft(LAMBDA sum, sg : sum + sg.length, 0, sgs) = req.len

\* The entry describes a part of the region it names.
InsideItsRegion(regs, sg, write) ==
    /\ sg.region < Len(regs)
    /\ sg.dma_addr = regs[sg.region + 1].base
    /\ sg.length > 0
    /\ sg.offset + sg.length <= regs[sg.region + 1].size
    /\ sg.mappable = regs[sg.region + 1].mappable
    /\ write => regs[sg.region + 1].writable

\* Whatever the hint, dma_addr_to_sg succeeds exactly on the spans that can
\* be translated, and the list it returns then has ret entries, at most
\* max_sg, that cover the span in order, each inside its region and allowed
\* the access.
TranslationSound ==
    \A req \in Probes, hint \in Hints :
        LET res == AddrToSg(regions, hint, req)
        IN  /\ (res.ret > 0) = Translatable(regions, req)
            /\ res.ret > 0 =>
                  /\ res.ret = Len(res.sgs)
                  /\ res.ret <= req.max_sg
                  /\ Covers(res.sgs, req)
                  /\ \A k \in DOMAIN res.sgs :
                        InsideItsRegion(regions, res.sgs[k], req.write)

\* The region_hint of dma_addr_to_sg is advisory: a call returns the same
\* value and the same list whatever the hint it starts with.
HintIndependence ==
    \A req \in Probes, hint \in Hints :
        LET res   == AddrToSg(regions, hint, req)
            other == AddrToSg(regions, 0, req)
        IN  res.ret = other.ret /\ (res.ret > 0 => res.sgs = other.sgs)

\* The assertion of _dma_mark_dirty, assert(region->dirty_bitmap != NULL):
\* a write translated while logging is on finds a bitmap in every region it
\* marks, the regions registered since logging was started included.
MarkedRegionHasBitmap ==
    \A req \in Probes, hint \in Hints :
        MarkFindsBitmap(regions, dirty_pgsize, hint, req)

\* While logging is on, the bitmap of a region that starts at address 0 has
\* a bit for every page written through a page-aligned span since the
\* bitmap was last read, and no bit outside the region: this is what
\* _get_pgstart and _get_pgend get right.
OwedPagesLogged ==
    \A i \in DOMAIN regions :
        regions[i].base = 0 /\ regions[i].bitmap # NULL =>
            /\ owed[0] \subseteq regions[i].bitmap
            /\ regions[i].bitmap
                   \subseteq BitmapPages(regions[i].size, dirty_pgsize)

\* The bitmap bounds what a device writes: while logging is on, every page
\* a device can write through an iovec it holds is marked in the bitmap of
\* its region.  dma_init_sg marks at the translation and dma_map_sg marks
\* nothing, so that this asks of every start of logging and every read of
\* the bitmap that no write mapping is outstanding.
HeldWritesLogged ==
    \A i \in DOMAIN regions, t \in Threads :
        LET held == SubSeq(sgl[t], 1, Len(iov[t]))
        IN  regions[i].base = 0 /\ regions[i].bitmap # NULL =>
                Owes(SelectSeq(held, LAMBDA sg : sg.write), 0)
                    \subseteq regions[i].bitmap

=============================================================================
