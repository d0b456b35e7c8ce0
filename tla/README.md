# TLA+ models of libvfio-user: DMA controller and PCI configuration space

This directory holds the TLA+ specifications of two parts of libvfio-user, the
TLC configurations that check them, and `PROJECT.json`, which lists the
components, the runs, the correspondence between definitions and source lines,
the findings and the hazards.

Sources modelled:

| file | what it is |
|---|---|
| `src/unnamed/part_000` | `dma.h`: the DMA controller's types, the inline translation, map, unmap and dirty-marking functions |
| `src/lib/pci.c` | the emulated PCI configuration space |

`dma.c` (registration, removal, the slow path of the translation, logging
start/stop/get) and `pci_caps.c` are not among the sources. What the models
need of them is written from the library's specification (`spec.md`) and is
marked `spec_modelled` in the map.

## 1. Inventory

### 1.1 DMA controller (`dma.h`)

State: `dma_controller_t` (`max_regions`, `nregions`, `dirty_pgsize`,
`regions[]`) and, for each `dma_memory_region_t`, the DMA span, the protection,
the host mapping (`info.vaddr`), `refcnt` and `dirty_bitmap`. Outside the
controller: the `static __thread int region_hint` of `dma_addr_to_sg`, and the
scatter-gather lists (`dma_sg_t`) and iovecs that the devices hold.

Operations:

| operation | where | changes |
|---|---|---|
| `dma_controller_add_region` | dma.c | appends a region; allocates a bitmap if logging is on |
| `dma_controller_remove_region` | dma.c | removes an unmapped region and re-packs the table, or answers busy and changes nothing |
| `dma_controller_remove_regions` | dma.c | empties the table at teardown |
| `dma_addr_to_sg` / `dma_init_sg` | dma.h 185-250 | fills a list, updates the hint, marks pages dirty |
| `_dma_addr_sg_split` | dma.c | the slow path: walks the regions |
| `dma_map_sg` | dma.h 252-282 | fills iovecs, `refcnt++` |
| `dma_unmap_sg` | dma.h 284-310 | `refcnt--` of the region found by its base |
| `_dma_mark_dirty` and helpers | dma.h 133-183 | sets bits of the bitmap |
| logging start / stop / get | dma.c | allocate, free, read and clear the bitmaps |

Actors: the server's message loop (registration, removal, logging) and the
device threads (translate, map, unmap). The controller has no lock. The
specification makes serialization of the mutating operations a duty of the
caller and allows translate, map and unmap concurrently.

### 1.2 PCI configuration space (`pci.c`)

State: `vfu_ctx->pci.config_space` (NULL until `vfu_pci_init`), `pci.type`, the
size of the configuration region, and in the header the ids, the class code,
the command register, latency timer, interrupt line, expansion ROM and six
BARs; `reg_info[]` (size and flags of every region) is read-only here.

Operations: `vfu_pci_init`, `vfu_pci_set_id`, `vfu_pci_set_class`,
`vfu_pci_get_config_space` (through which the device writes the header
itself), and `pci_config_space_access`, whose loop cuts an access into segments
(`pci_config_space_next_segment`) and gives each to `pci_hdr_access`
(`pci_hdr_write`, `handle_command_write`, `handle_erom_write`,
`pci_hdr_write_bar`), to `pci_cap_access`, or to `pci_nonstd_access` (the
device's region callback).

### 1.3 What is hard here

* two device threads in `dma_map_sg`/`dma_unmap_sg` at once (plain `refcnt++`),
  or in `_dma_mark_dirty` at once (plain `|=` on a byte of the bitmap);
* a slot of the table read through a hint that a removal has made stale;
* a list translated, the table changed, the list mapped (index against base);
* unsigned arithmetic at its edges: page ranges, `dma_addr + len`, `size_t` to
  `uint32_t`, `r > regions + nregions`, `count -= ret`;
* a list mapped half-way when `dma_map_sg` fails; a write of several segments
  that fails at a later one; `handle_command_write` failing after it has
  changed bits;
* the loop of `pci_config_space_access` driven by what callbacks return;
* regions registered while logging is on.

`PROJECT.json` lists each of these under `hazards`, at its line.

## 2. Modules

| module | models | state / actions |
|---|---|---|
| `DmaBitmap` | the page arithmetic, `dma.h` 133-183 | operators only: `ShouldMarkDirty`, `GetPgStart`, `GetPgEnd`, `BitmapGetPgRange`, `MarkDirty`; reference definitions `PagesTouched`, `BitmapPages` |
| `DmaDirtyRegion` | the bitmap of one region while logging is on | per thread: `MarkWrite` (a write translation enters `_dma_mark_dirty`), `MarkLoad`, `MarkStore` (a round of its loop); `Snapshot` (dirty page get) |
| `DmaPinning` | what registration and map/unmap promise, without table and counts | `Register`, `Release`, `ReleaseAll`, `Pin`, `Unpin` |
| `DmaController` | the whole controller | server: `AddRegion`, `RemoveRegion`, `RemoveRegions`, `LoggingStart`, `LoggingStop`, `DirtyGet`; device thread: `Translate`, `Discard`, `MapReject`, `MapLoad`, `MapStore`, `UnmapLoad`, `UnmapStore` |
| `MCDmaController` | constants for TLC | sets of spans and requests, thread symmetry |
| `PciConfig` | the configuration space | `VfuPciInit`, `VfuPciSetId`, `VfuPciSetClass`, `DeviceSetsHeader`, `BeginAccess`, `HdrSegment`, `NonstdSegment`, `CapSegment` |
| `MCPciConfig` | constants for TLC | BARs, two capabilities, the guest's accesses, what callbacks return |

`DmaController` extends `DmaBitmap`; `DmaDirtyRegion` extends `DmaBitmap`.
`DmaController` instantiates `DmaPinning` (`Pinned == INSTANCE DmaPinning WITH
...`) and is checked to implement it.

### How the models correspond to the code

* Arithmetic on `size_t`, `uint64_t` and pointers is modulo `Word`; a
  `uint32_t` length is modulo `LenLimit`; a 32-bit register is modulo
  `RegLimit`. The runs take small powers of two, so that wrap-around and
  truncation happen within the bounds.
* A bitmap is the set of the page numbers whose bit is set. `_dma_mark_dirty`
  does not look at the size of the bitmap, and neither does `MarkDirty`: a page
  outside `BitmapPages` stands for a write outside the allocation.
* The table `regions[0 .. nregions-1]` is a sequence; `regions[i + 1]` is the
  code's `regions[i]`. File descriptor, file offset and the address of the host
  mapping are abstracted to `mappable`; an iovec records the base of the region
  it points into, which is what the properties need to tell mappings apart.
* `AddrToSg(regs, hint, req)` is the whole of `dma_addr_to_sg` as a function of
  the table and the hint: `[ret, sgs, hint]`. The properties apply it to every
  hint, and `Translate` applies it to the thread's own.
* `dma_addr_to_sg` reads `regions[region_hint]` (dma.h 229, 230) before it
  tests the hint against `nregions` (236). When the hint is past the last
  region the slot holds what a removal left there: `HintedSlots` is then
  every base and size a region can have, and `FastPathHit` must come to the
  same answer for each of them.
* `MapRejects` is one boolean for the two errors of `dma_map_sg` (`-EINVAL`,
  `-EFAULT`): none of the properties tells them apart. After an error the
  code undoes nothing; that the device keeps the entries that have an iovec,
  to unmap them, is the caller's part and assumed (`MapReject`).
* The assertion of `_dma_mark_dirty` (dma.h 177) is a guard of `Translate`
  (`MarkFindsBitmap`): a state in which it would fail is one the invariant
  `MarkedRegionHasBitmap` names, and the model does not go on from a failed
  assertion.
* `refcnt++` and `refcnt--` are two steps each (`MapLoad`/`MapStore`,
  `UnmapLoad`/`UnmapStore`) with the value read kept in `tmp`; a round of the
  loop of `dma_map_sg` or `dma_unmap_sg` is one such pair.
* In `DmaDirtyRegion` the statement `dirty_bitmap[i / CHAR_BIT] |= ...` is the
  read of the byte (`MarkLoad`, the bits read are kept in `mark[t].byte`) and
  the write of the byte read with the bit added (`MarkStore`). `ByteOf(i)` is
  the set of the pages whose bits share the byte of page `i`; `CharBit` is
  `CHAR_BIT`. `Serial` says whether the embedding runs one translation at a
  time. In `DmaController` a translation marks in one step (`MarkAll`).
* A `dma_sg_t` does not keep the `prot` it was translated with. The entries of
  the model keep it in the field `write`, as history, for the one property
  that asks what a device may write through what it holds.
* The refinement mapping to `DmaPinning`: `registered` is the set of the bases
  in the table, `held[t]` the bases of the iovecs thread `t` holds, in order.
  `MapLoad` is a `Pin`, the end of a round of `dma_unmap_sg` an `Unpin`,
  `AddRegion` a `Register`, `RemoveRegion` a `Release`, `RemoveRegions` a
  `ReleaseAll`; every other step leaves the abstract state as it is. The
  abstract `Release` asks that no thread holds the region, where the code
  tests `refcnt`: that the two agree is what the refinement shows.
* The write of `dma_unmap_sg` one slot past the table sets `overrun`.
* What the embedding must guarantee is a constant, so that a run can grant it
  or withdraw it: `SerialCalls` (one device call at a time) and `FreshSg` (no
  removal while a device holds a translated, unmapped list). `AddAllocates`
  chooses between the two readings the specification gives of a region
  registered while logging is on: it gets a bitmap, or it has none.
* In `PciConfig`, `acc` is the access inside the loop of
  `pci_config_space_access` (`offset`, `count`, and as history the segments
  done); one round of the loop is one of `HdrSegment`, `NonstdSegment` and
  `CapSegment`. The operators for header writes return `[ret, pci]`: the value
  returned and the header left behind, which for `HandleCommandWrite` differ
  from "error and unchanged". `result` is what the access returns: the error
  of a handler, or `offset - start`; it is `NULL` while a call runs. An
  access of `count` 0 does not enter the loop and returns 0.
* `has_cb` says whether the device gave the configuration region a callback;
  it is fixed before `vfu_pci_init`. Without one `pci_nonstd_access`
  returns `-EINVAL` for a write and the count for a read.
* `vfu_pci_set_id`, `vfu_pci_set_class` and the device's own writes through
  `vfu_pci_get_config_space` are enabled whenever `config_space` is set,
  between the rounds of an access as well: pci.c takes no lock.
* `BeginAccess` asks that `offset + count <= cfg_size`. pci.c does not test
  it; the caller of `pci_config_space_access` (the region access path, not
  among the sources) is taken to.
* The `&` and `|` of the code are arithmetic on the set of bits of a value
  (`BitsOf`, `BitOr`) and remainders by a power of two.
* `pci_hdr_write_bar` reads four bytes whatever the count: for a shorter write
  `Written` lets the value be any one that agrees with the guest's in the low
  byte.
* A call that returns an error and changes nothing is a stuttering step and has
  no action.

## 3. Runs

| run | module / cfg | expects | what it shows |
|---|---|---|---|
| `dirty_region` | `DmaDirtyRegion` / `DmaDirtyRegion.cfg` | pass | for a region at address 0, page-aligned writes are logged and no mark leaves the bitmap |
| `dirty_contract` | `DmaDirtyRegion` / `DmaDirtyContract.cfg` | violation | the contract for every span and base: `_get_pgend` misses the last page of an unaligned span (alone with `Bases = {0}`), and for a region not at address 0 the marks miss the pages written |
| `dirty_race` | `DmaDirtyRegion` / `DmaDirtyRace.cfg` | violation | two threads marking pages of one byte at once lose a bit |
| `dma_pins` | `MCDmaController` / `DmaPins.cfg` | pass | two device threads and the server, logging included: reference counts equal the mappings held; iovecs point into registered regions; unmap stays in the table; the pages owed to the log are in the bitmaps; the controller implements `DmaPinning` |
| `dma_translate` | `MCDmaController` / `DmaTranslate.cfg` | pass | translation is sound and complete, and independent of the hint |
| `dma_late` | `MCDmaController` / `DmaLate.cfg` | violation | with a registration that allocates no bitmap while logging is on, a region is in the table whose first write translation fails the assertion of `_dma_mark_dirty` |
| `dma_held` | `MCDmaController` / `DmaHeld.cfg` | violation | a write mapping that is older than the start of logging writes to a page that is not logged |
| `dma_racy` | `MCDmaController` / `DmaRacy.cfg` | violation | concurrent map calls lose an increment |
| `dma_stale` | `MCDmaController` / `DmaStale.cfg` | violation | a list translated before a removal maps the region that took its slot, and its unmap lowers a `refcnt` past the end of the table: the test for a bad region (dma.h 300) never holds |
| `dma_edges` | `MCDmaController` / `DmaEdges.cfg` | violation | at the limits of the integers a span is translated that can not be: one whose end wraps, one whose length needs more than 32 bits (each alone violates) |
| `pci_config` | `MCPciConfig` / `PciConfig.cfg` | pass | segments follow the areas, accesses return and return their count, a refused header write changes at most the command bits, a probed BAR tells its size; with and without a callback of the device |
| `pci_cap_tail` | `MCPciConfig` / `PciCapTail.cfg` | violation | an access from inside a capability runs past its end |

Each violation run withdraws one assumption of a passing run (`dma_late`
takes the other reading of the specification), widens its inputs by one
case, or (`dirty_contract`, `dma_held`) asks for what the specification
promises beyond what the passing runs show; its finding in `PROJECT.json`
says what the counterexample shows.

### Properties

* `RefcountMatchesMappings`: `refcnt` of a region is the number of mapped
  entries referring to it, across threads and across the two halves of `++`
  and `--`.
* `IovPointsIntoTranslatedRegion`: an iovec held by a device points into a
  region that is registered, mappable and the one the entry was translated to.
* `ImplementsPinning` (refinement): every behaviour of the controller is,
  under the mapping `Pinned`, a behaviour of `DmaPinning`: no iovec is handed
  out into memory that is not registered, memory a device holds is not
  unregistered, and what is held is given back in order.
* `UnmapStaysInsideTable`: `refcnt--` is never applied outside
  `regions[0 .. nregions-1]`. It holds while every entry unmapped has its
  region in the table (`dma_pins`). The code means to skip an entry that has
  none (`/* bad region */`), and `dma_stale` shows that it does not: with
  `FreshSg` withdrawn the search ends at `regions + nregions` and the test
  `r > regions + nregions` lets it through. `IovPointsIntoTranslatedRegion`
  fails two steps earlier in the same behaviour, when the list is mapped.
* `TranslationSound`: for every hint, `dma_addr_to_sg` succeeds exactly on the
  spans that lie in regions allowing the access and fit `max_sg`, and the list
  covers the span in order.
* `HintIndependence`: the result does not depend on the hint.
* `MarkedRegionHasBitmap`: while logging is on every region has a bitmap,
  which is what the assertion of `_dma_mark_dirty` needs of a region a write
  is translated to. It holds when registration allocates and is checked
  where it does not (`dma_late`): there it fails after `AddRegion`,
  `LoggingStart`, `AddRegion`.
* `OwedPagesLogged`: in the controller, between start, stop and get and with
  regions added and removed, the bitmap of a region at address 0 has the
  pages of the page-aligned writes translated since it was last read, and no
  bit outside the region.
* `AlignedWritesLogged`, `MarksInsideBitmapAtZero` (`DmaDirtyRegion`): what
  the page arithmetic gets right, and what the marking keeps over any
  sequence of translations and snapshots when one translation runs at a
  time; `WritesLogged`: the full contract, which the code does not keep.
* `HeldWritesLogged`: while logging is on, the pages a device can write
  through the iovecs it holds are in the bitmap. The code marks at the
  translation only, so this fails as soon as logging starts, or the bitmap is
  read, while a write mapping is outstanding (`dma_held`).
* `SegmentsFollowAreas`: the segments of an access lie end to end, each in one
  area (header, one capability, rest) and handled by that area's handler.
* `AccessTellsWhatItDid` (action property): an access that succeeds returns
  the count it was called with, over every way of cutting it into segments
  and every short answer of a callback; a write that `pci_hdr_write` refuses
  leaves the header as it was but for the enable bits of the command
  register, which `handle_command_write` sets before it meets a bit it does
  not know (pci.c 184).
* `AccessReturns` (liveness): an access that has entered the loop leaves it.
* `ProbedBarTellsSize`: after a write of all ones the address bits of a BAR are
  the two's complement of the region's size.

Every property of a passing run has a mutant in `PROJECT.json`: an operator,
defined before the one it replaces, with a plausible mistake in it, under which
TLC finds the property violated.

### Bounds

* `Word = 32`, `LenLimit = 16` (8 in `dma_edges`): addresses up to 31, so that
  `dma_addr + len` can wrap and lengths can exceed `LenLimit`.
* Spans: regions that touch (`[0,4)`, `[4,6)`, `[6,10)`) and one that overlaps
  them (`[2,6)`), so that registration is refused, lists cross up to three
  regions and removal re-packs the table. `MaxRegions` is 2 or 3.
* Two threads in `dma_pins`, `dma_racy` and `dirty_race`: the least number
  with a race. One thread where the question is the order of server and
  device steps.
* `CharBit = 2`: two pages to a byte of the bitmap, so that regions of 3 to 8
  pages have bits that share a byte and bits that do not.
* `dma_pins` has page size 2 and, beside the requests that pin, writes of 1
  and 3 bytes at address 0 that end inside a page (`DeviceRequests`): the
  log is started, read and stopped while lists are translated and mapped,
  and regions come and go while it is on (856,542 states).
* `dma_late` needs one thread and two regions: one registered before and one
  after the start of logging.
* `dma_translate` has no thread: the properties quantify over all requests
  (`Probes`, 864 of them) and all hints in every reachable table.
* Page sizes 1, 2 and 4 with regions of 3, 4 and 8 bytes: spans inside one
  page, across pages, and a last page that is not full.
* `RegLimit = 2048` stands for 2^32: it leaves room for BAR sizes 16 and 64
  and the flag bits; the bits of a value are looked for below 2^16.
  Capabilities at 72 (size 8) and 80 (size 4), after 8 bytes of plain
  configuration space: accesses of 12 bytes from 60, 62, 70 and 72 cross every
  border between areas, the one between the two capabilities included. A
  write of 8 bytes at BAR0 and one of 12 bytes at the interrupt line cover
  more than one register of the header. An access of count 0 is among the
  reads. `Callbacks = {TRUE, FALSE}`: both branches of `pci_nonstd_access`
  (112,098 states).

### Fairness

`pci_config` assumes `WF_vars(Round)`. Once `pci_config_space_access` is in
its loop it runs without waiting for anything: each round is a function call
that returns. Whether the loop ends then depends on what the handlers return,
which is what `AccessReturns` checks. No fairness is assumed of the guest or
the device.

The other runs check safety only and assume no fairness. Nothing in dma.h
waits or retries: that a removal answered busy succeeds later depends on the
device and the server alone, and the controller promises nothing about it.
Deadlock is checked in every run: no model may stop.

## 4. Not modelled

* The transport, the message loop, migration, interrupts and the device
  regions: not among the sources; they appear as the nondeterministic
  environment of the two models.
* The contents of capabilities; `pci_cap_access` is taken to handle its whole
  segment or fail.
* `mmap`, file descriptors and the bytes of guest memory.
* Logging and `dump_buffer`.
* The bitmap byte by byte inside `DmaController`: the two-step marking is in
  `DmaDirtyRegion`, where one region is enough to show what it does. The
  server operations of `DmaController` run between device calls, so a removal
  or a snapshot can not fall between the read and the write of a byte, and
  the controller would show nothing that `dirty_race` does not.
* What a guest may assume when an access fails in a later segment after
  earlier ones were applied (pci.c 389): the code asks the question itself
  (`FIXME: partial reads, still return an error?`) and states no contract.
  The model does what the code does.
* Header writes that cover more than one register (pci.c 230): the switch
  looks at the offset alone. The model does the same and states no property.
* Region callbacks that return 0 or more than the size of their segment
  (pci.c 394, 395). `CbReturns` of the runs is the whole segment, half of it
  or an error. With 0 the loop does not end and with too much `count` wraps;
  nothing in pci.c says what a callback may return, so there is no statement
  of the code to hold this against.
* Calls before `vfu_pci_init` has succeeded (pci.c 457), which dereference a
  NULL pointer: the order of the calls is the device's duty.
* The body of `dma_controller_add_region` for a region registered while
  logging is on: the function is not among the sources and the
  specification says both that the region gets a bitmap and that it has
  none. The passing runs take the first reading; `dma_late` takes the
  second and shows the state in which the assertion of `_dma_mark_dirty`
  (dma.h 177) fails at the next write translation.
* The loop of `_dma_mark_dirty` when `_get_pgend` wraps below `_get_pgstart`:
  `MarkAll` in `DmaController` is the finite set of the pages of
  `BitmapGetPgRange`; the loop itself, round by round, is in
  `DmaDirtyRegion`.
* A removal that is answered busy and tried again: the retry is the
  caller's, and with no lock and no wait in dma.h there is no scheduling the
  code guarantees under which it must succeed.

## 5. Plan

Done: the modules above with twelve runs, among them the refinement to
`DmaPinning`, the two readings of a registration while logging is on, the
two-step marking of the bitmap, what an access of the configuration space returns, accesses that
cross from one capability into the next, and write mappings that outlive the
start of logging.

Open, and waiting for sources rather than for modelling: the table
operations and the logging calls of `dma.c`, and `pci_caps.c`
(`cap_find_by_offset`, `pci_cap_access`), which the models take from the
specification or as a callback. With them the actions marked as written from
the specification can be translated from code, and the contents of a
capability can become state.

## 6. Running

    tlc -workers 2 -config DmaPins.cfg MCDmaController
    tlc -workers 2 -config PciConfig.cfg MCPciConfig
    tlc -workers 2 -config DmaDirtyRegion.cfg DmaDirtyRegion

and likewise for the other configurations; the module of each is in the table
of section 3. The longest run (`dma_pins`) takes about two minutes, `pci_config` and
`dirty_region` under one. The community module `Bitwise` is not used: its operators
are evaluated by recursive definitions and made `pci_config` ten times
slower.
